---- MODULE Spec2Model ----
(***************************************************************************)
(* A model of droideer: the UI-dump parser (src/src/utils/xml-parser.js),  *)
(* the selector engine, the snapshot cache and the wait loop               *)
(* (src/src/Page.js), and the element handle (src/src/Element.js).         *)
(*                                                                         *)
(* JavaScript strings are TLA+ strings; Len, \o and SubSeq act on them.    *)
(* A raw dump is a sequence of markup tokens (tags with their attribute    *)
(* strings, text, whitespace, control characters); the XML library the     *)
(* parser calls is modelled as the strict stack parser it is.              *)
(***************************************************************************)
EXTENDS Integers, Sequences, FiniteSets, TLC

(***************************************************************************)
(* String helpers, after the methods of String.prototype.                  *)
(***************************************************************************)
Ch(s, i) == SubSeq(s, i, i)

StartsWith(s, p) == Len(p) <= Len(s) /\ SubSeq(s, 1, Len(p)) = p

EndsWith(s, p) == Len(p) <= Len(s) /\ SubSeq(s, Len(s) - Len(p) + 1, Len(s)) = p

Includes(s, p) == \E i \in 1..(Len(s) - Len(p) + 1) : SubSeq(s, i, i + Len(p) - 1) = p

\* The least index >= from at which p occurs in s, 0 when there is none.
IndexFrom(s, p, from) ==
  LET hits == {i \in from..(Len(s) - Len(p) + 1) : SubSeq(s, i, i + Len(p) - 1) = p}
  IN IF hits = {} THEN 0 ELSE CHOOSE i \in hits : \A j \in hits : i <= j

Digits == {"0", "1", "2", "3", "4", "5", "6", "7", "8", "9"}

DigitVal(c) ==
  CASE c = "0" -> 0 [] c = "1" -> 1 [] c = "2" -> 2 [] c = "3" -> 3 [] c = "4" -> 4
    [] c = "5" -> 5 [] c = "6" -> 6 [] c = "7" -> 7 [] c = "8" -> 8 [] OTHER -> 9

\* Number(s) of a string of decimal digits.
RECURSIVE ToNumber(_)
ToNumber(s) ==
  IF Len(s) = 0 THEN 0
  ELSE 10 * ToNumber(SubSeq(s, 1, Len(s) - 1)) + DigitVal(Ch(s, Len(s)))

\* The end of the longest run of digits of s that starts at i (i - 1: none).
RECURSIVE DigitRunEnd(_, _)
DigitRunEnd(s, i) ==
  IF i <= Len(s) /\ Ch(s, i) \in Digits THEN DigitRunEnd(s, i + 1) ELSE i - 1

RECURSIVE NatToString(_)
NatToString(n) ==
  LET d == CHOOSE c \in Digits : DigitVal(c) = n % 10
  IN IF n < 10 THEN d ELSE NatToString(n \div 10) \o d

Lower == "abcdefghijklmnopqrstuvwxyz"

Upper == "ABCDEFGHIJKLMNOPQRSTUVWXYZ"

LowerCh(c) ==
  LET k == IndexFrom(Upper, c, 1) IN IF Len(c) = 1 /\ k > 0 THEN Ch(Lower, k) ELSE c

RECURSIVE ToLowerCase(_)
ToLowerCase(s) ==
  IF Len(s) = 0 THEN "" ELSE LowerCh(Ch(s, 1)) \o ToLowerCase(SubSeq(s, 2, Len(s)))

(***************************************************************************)
(* The raw dump: tokens.                                                   *)
(***************************************************************************)
NoAttrs == [n \in {} |-> ""]

Tok(t, tag, a) == [t |-> t, tag |-> tag, a |-> a]

Open(tag, a) == Tok("open", tag, a)

Close(tag) == Tok("close", tag, NoAttrs)

WsTok == Tok("ws", "", NoAttrs)

TextTok == Tok("text", "", NoAttrs)

CtlTok == Tok("ctl", "", NoAttrs)

DeclTok == Tok("decl", "", NoAttrs)

\* An element cut off inside its tag: <node text="x"
CutTok(a) == Tok("cut", "node", a)

\* A JavaScript value given as the dump: a string (its tokens) or not a string
\* (null, undefined).
RawString(toks) == [str |-> TRUE, toks |-> toks]

RawNull == [str |-> FALSE, toks |-> <<>>]

(***************************************************************************)
(* cleanXMLString.                                                         *)
(***************************************************************************)
EntityChars == "abcdefghijklmnopqrstuvwxyzABCDEFGHIJKLMNOPQRSTUVWXYZ0123456789#"

IsEntityChar(c) == Len(c) = 1 /\ IndexFrom(EntityChars, c, 1) > 0

\* The lookahead [a-zA-Z0-9#]{1,8}; after the "&" at i.
EntityAhead(s, i) ==
  \E k \in 1..8 :
    /\ i + k + 1 <= Len(s)
    /\ \A j \in 1..k : IsEntityChar(Ch(s, i + j))
    /\ Ch(s, i + k + 1) = ";"

\* .replace(/&(?![a-zA-Z0-9#]{1,8};)/g, '&amp;')
RECURSIVE EscapeAmpFrom(_, _)
EscapeAmpFrom(s, i) ==
  IF i > Len(s) THEN ""
  ELSE (IF Ch(s, i) = "&" /\ ~EntityAhead(s, i) THEN "&amp;" ELSE Ch(s, i))
         \o EscapeAmpFrom(s, i + 1)

EscapeAmp(s) == EscapeAmpFrom(s, 1)

EscapeTok(tok) == [tok EXCEPT !.a = [n \in DOMAIN tok.a |-> EscapeAmp(tok.a[n])]]

\* !xmlString || typeof xmlString !== 'string'
CleanThrows(raw) == ~raw.str \/ raw.toks = <<>>

RECURSIVE TrimLeft(_)
TrimLeft(toks) ==
  IF toks # <<>> /\ Head(toks).t = "ws" THEN TrimLeft(Tail(toks)) ELSE toks

RECURSIVE TrimRight(_)
TrimRight(toks) ==
  IF toks # <<>> /\ toks[Len(toks)].t = "ws"
  THEN TrimRight(SubSeq(toks, 1, Len(toks) - 1)) ELSE toks

Trim(toks) == TrimRight(TrimLeft(toks))

IsXmlStart(tok) ==
  tok.t = "decl" \/ (tok.t \in {"open", "cut"} /\ StartsWith(tok.tag, "hierarchy"))

\* cleaned.match(/<\?xml|<hierarchy/) and the substring from the match.
StripPreamble(toks) ==
  LET hits == {i \in 1..Len(toks) : IsXmlStart(toks[i])}
  IN IF hits = {} THEN toks
     ELSE SubSeq(toks, CHOOSE i \in hits : \A j \in hits : i <= j, Len(toks))

RemoveControl(toks) == SelectSeq(toks, LAMBDA tok : tok.t # "ctl")

EscapeAll(toks) == [i \in 1..Len(toks) |-> EscapeTok(toks[i])]

\* .replace(/^<hierarchy/, '<?xml version="1.0" encoding="UTF-8"?><hierarchy')
AddDeclaration(toks) ==
  IF toks # <<>> /\ toks[1].t \in {"open", "cut"} /\ StartsWith(toks[1].tag, "hierarchy")
  THEN <<DeclTok>> \o toks ELSE toks

cleanXMLString(toks) == AddDeclaration(EscapeAll(RemoveControl(StripPreamble(Trim(toks)))))

(***************************************************************************)
(* The XML library: a strict parser with a stack of open elements.  An     *)
(* element is named by its path, the child positions from the root.        *)
(***************************************************************************)
KnownEntity(name) == name \in {"amp", "lt", "gt", "quot", "apos"}

EntityText(name) ==
  CASE name = "amp" -> "&" [] name = "lt" -> "<" [] name = "gt" -> ">"
    [] name = "quot" -> "\"" [] OTHER -> "'"

EntityEnd(s, i) == IndexFrom(s, ";", i + 1)

\* An "&" of s that starts no known entity: a fatal syntax error.
BadEntity(s) ==
  \E i \in 1..Len(s) :
    /\ Ch(s, i) = "&"
    /\ \/ EntityEnd(s, i) = 0
       \/ ~KnownEntity(SubSeq(s, i + 1, EntityEnd(s, i) - 1))

RECURSIVE DecodeFrom(_, _)
DecodeFrom(s, i) ==
  IF i > Len(s) THEN ""
  ELSE IF Ch(s, i) = "&" /\ EntityEnd(s, i) > 0
       THEN EntityText(SubSeq(s, i + 1, EntityEnd(s, i) - 1))
              \o DecodeFrom(s, EntityEnd(s, i) + 1)
       ELSE Ch(s, i) \o DecodeFrom(s, i + 1)

DecodeEntities(s) == DecodeFrom(s, 1)

NoElems == [p \in {} |-> [tag |-> "", a |-> NoAttrs]]

IsChildPath(q, p) == Len(q) = Len(p) + 1 /\ SubSeq(q, 1, Len(p)) = p

KidCount(elems, p) == Cardinality({q \in DOMAIN elems : IsChildPath(q, p)})

SaxFail(st) == [st EXCEPT !.err = TRUE]

SaxStep(st, tok) ==
  LET top == st.stack[Len(st.stack)] IN
  IF st.err THEN st
  ELSE CASE tok.t \in {"ws", "decl"} -> st
         [] tok.t \in {"text", "ctl"} -> IF st.stack = <<>> THEN SaxFail(st) ELSE st
         [] tok.t = "open" ->
              IF st.closed \/ \E n \in DOMAIN tok.a : BadEntity(tok.a[n])
              THEN SaxFail(st)
              ELSE LET p == IF st.stack = <<>> THEN <<>>
                            ELSE Append(top, KidCount(st.elems, top) + 1)
                       el == [tag |-> tok.tag,
                              a |-> [n \in DOMAIN tok.a |-> DecodeEntities(tok.a[n])]]
                   IN [st EXCEPT !.stack = Append(@, p), !.elems = (p :> el) @@ @]
         [] tok.t = "close" ->
              IF st.stack = <<>> \/ st.elems[top].tag # tok.tag
              THEN SaxFail(st)
              ELSE [st EXCEPT !.stack = SubSeq(@, 1, Len(@) - 1),
                              !.closed = (Len(st.stack) = 1)]
         [] OTHER -> SaxFail(st)

RECURSIVE SaxRun(_, _, _)
SaxRun(st, toks, i) ==
  IF i > Len(toks) \/ st.err THEN st ELSE SaxRun(SaxStep(st, toks[i]), toks, i + 1)

\* Mutation of XmlParse: a parser that is not strict closes what the input left
\* open instead of reporting an error.
XmlParseLenient(toks) ==
  LET st == SaxRun([stack |-> <<>>, elems |-> NoElems, err |-> FALSE, closed |-> FALSE],
                   SelectSeq(toks, LAMBDA tok : tok.t # "cut"), 1)
  IN [err |-> st.err, elems |-> st.elems]

\* parser.parseString: err, or the result (null for a document with no element).
XmlParse(toks) ==
  LET st == SaxRun([stack |-> <<>>, elems |-> NoElems, err |-> FALSE, closed |-> FALSE],
                   toks, 1)
  IN [err |-> st.err \/ st.stack # <<>>, elems |-> st.elems]

(***************************************************************************)
(* processNode, generateSelector, parseUIHierarchy.  A tree is a function  *)
(* from paths to Nodes: the root at <<>>, the i-th child of p at           *)
(* Append(p, i).                                                           *)
(***************************************************************************)
AttrNames ==
  {"class", "resource-id", "text", "content-desc", "bounds", "index", "package",
   "clickable", "long-clickable", "enabled", "selected", "focused", "focusable",
   "scrollable", "checkable", "checked", "password", "visible-to-user"}

Default(n) ==
  CASE n = "class" -> "android.view.View"
    [] n = "bounds" -> "[0,0][0,0]"
    [] n = "index" -> "0"
    [] n \in {"enabled", "visible-to-user"} -> "true"
    [] n \in {"resource-id", "text", "content-desc", "package"} -> ""
    [] OTHER -> "false"

\* attributes[n] || default
AttrOr(a, n) == IF n \in DOMAIN a /\ a[n] # "" THEN a[n] ELSE Default(n)

NoRect ==
  [ok |-> FALSE, x1 |-> 0, y1 |-> 0, x2 |-> 0, y2 |-> 0,
   centerX |-> 0, centerY |-> 0, width |-> 0, height |-> 0]

\* /\[(\d+),(\d+)\]\[(\d+),(\d+)\]/ tried at i.
BoundsAt(s, i) ==
  LET e1 == DigitRunEnd(s, i + 1)
      e2 == DigitRunEnd(s, e1 + 2)
      e3 == DigitRunEnd(s, e2 + 3)
      e4 == DigitRunEnd(s, e3 + 2)
      ok == /\ Ch(s, i) = "["
            /\ e1 >= i + 1 /\ e1 + 1 <= Len(s) /\ Ch(s, e1 + 1) = ","
            /\ e2 >= e1 + 2 /\ e2 + 2 <= Len(s) /\ SubSeq(s, e2 + 1, e2 + 2) = "]["
            /\ e3 >= e2 + 3 /\ e3 + 1 <= Len(s) /\ Ch(s, e3 + 1) = ","
            /\ e4 >= e3 + 2 /\ e4 + 1 <= Len(s) /\ Ch(s, e4 + 1) = "]"
      x1 == ToNumber(SubSeq(s, i + 1, e1))
      y1 == ToNumber(SubSeq(s, e1 + 2, e2))
      x2 == ToNumber(SubSeq(s, e2 + 3, e3))
      y2 == ToNumber(SubSeq(s, e3 + 2, e4))
  IN IF ~ok THEN NoRect
     ELSE [ok |-> TRUE, x1 |-> x1, y1 |-> y1, x2 |-> x2, y2 |-> y2,
           centerX |-> (x1 + x2) \div 2, centerY |-> (y1 + y2) \div 2,
           width |-> x2 - x1, height |-> y2 - y1]

\* bounds.match(...): the first place the pattern matches, NoRect when none.
ParseBounds(s) ==
  LET hits == {i \in 1..Len(s) : BoundsAt(s, i).ok}
  IN IF hits = {} THEN NoRect
     ELSE BoundsAt(s, CHOOSE i \in hits : \A j \in hits : i <= j)

RECURSIVE ReplaceAll(_, _, _)
ReplaceAll(s, c, r) ==
  IF Len(s) = 0 THEN ""
  ELSE (IF Ch(s, 1) = c THEN r ELSE Ch(s, 1)) \o ReplaceAll(SubSeq(s, 2, Len(s)), c, r)

generateSelector(f) ==
  LET esc(v) == ReplaceAll(v, "\"", "\\\"")
      base == IF f["resource-id"] # ""
              THEN f["class"] \o "[@resource-id=\"" \o f["resource-id"] \o "\"]"
              ELSE IF f["text"] # ""
              THEN f["class"] \o "[@text=\"" \o esc(f["text"]) \o "\"]"
              ELSE IF f["content-desc"] # ""
              THEN f["class"] \o "[@content-desc=\"" \o esc(f["content-desc"]) \o "\"]"
              ELSE f["class"]
  IN IF f["index"] # "0" THEN base \o "[" \o f["index"] \o "]" ELSE base

\* The Node object processNode builds from one element (its children apart).
MkNode(a, id) ==
  LET f == [n \in AttrNames |-> AttrOr(a, n)]
  IN [id |-> id,
      f |-> ("tag" :> "node") @@ ("selector" :> generateSelector(f)) @@ f,
      attributes |-> a,
      rect |-> ParseBounds(f["bounds"])]

\* node.node: the children named node, in document order.
NodeKids(elems, p) ==
  SelectSeq([k \in 1..KidCount(elems, p) |-> Append(p, k)],
            LAMBDA q : elems[q].tag = "node")

IdBase == 1000

\* A Node id is a JavaScript number, a double that holds a natural number:
\* here its binary digits, the least significant first, none for 0.
Zero == <<>>

One == <<1>>

\* The significant binary digits a double keeps.
Mantissa == 53

\* The digit of a at place i.
Bit(a, i) == IF i <= Len(a) THEN a[i] ELSE 0

\* The digits from..to of a + b + carry, and after them the carry out: the
\* lower half first, its carry into the upper half.
RECURSIVE AddBits(_, _, _, _, _)
AddBits(a, b, carry, from, to) ==
  IF from > to THEN <<carry>>
  ELSE IF from = to
  THEN <<(Bit(a, from) + Bit(b, from) + carry) % 2, (Bit(a, from) + Bit(b, from) + carry) \div 2>>
  ELSE LET mid == (from + to) \div 2
           low == AddBits(a, b, carry, from, mid)
           high == AddBits(a, b, low[Len(low)], mid + 1, to)
       IN SubSeq(low, 1, Len(low) - 1) \o high

\* a + b + carry, exactly.
Sum(a, b, carry) ==
  LET n == IF Len(a) >= Len(b) THEN Len(a) ELSE Len(b)
      digits == AddBits(a, b, carry, 1, n)
  IN IF digits[n + 1] = 1 THEN digits ELSE SubSeq(digits, 1, n)

\* a * 2^k
Shifted(a, k) == IF a = <<>> THEN <<>> ELSE [i \in 1..k |-> 0] \o a

\* The binary digit of n at place k (0 the least significant).
NatBit(n, k) == (n \div 2^k) % 2

\* a * (the digits from..to of n), the sum of the shifted copies of a.
RECURSIVE PartialProducts(_, _, _, _)
PartialProducts(a, n, from, to) ==
  IF from = to THEN (IF NatBit(n, from) = 1 THEN Shifted(a, from) ELSE <<>>)
  ELSE Sum(PartialProducts(a, n, from, (from + to) \div 2),
           PartialProducts(a, n, (from + to) \div 2 + 1, to), 0)

\* a * n, exactly (n < 2^30).
Product(a, n) ==
  IF n = 0 THEN <<>>
  ELSE PartialProducts(a, n, 0, CHOOSE w \in 0..29 : 2^w <= n /\ n < 2^(w + 1))

\* The double nearest to a, ties to the even one.
ToDouble(a) ==
  IF Len(a) <= Mantissa THEN a
  ELSE LET k == Len(a) - Mantissa
           high == SubSeq(a, k + 1, Len(a))
           up == a[k] = 1 /\ (high[1] = 1 \/ \E i \in 1..(k - 1) : a[i] = 1)
       IN Shifted(IF up THEN Sum(high, One, 0) ELSE high, k)

\* let childId = id * 1000 + 1, then childId++ for each child before the i-th.
RECURSIVE ChildId(_, _)
ChildId(id, i) ==
  IF i = 1 THEN ToDouble(Sum(ToDouble(Product(id, IdBase)), One, 0))
  ELSE ToDouble(Sum(ChildId(id, i - 1), One, 0))

\* The calls processNode(child, childId) made under processNode(p, id), with the
\* place q of each Node in the tree built: <<q, p, id>>.
RECURSIVE Placed(_, _, _, _)
Placed(elems, p, q, id) ==
  LET kids == NodeKids(elems, p)
  IN {<<q, p, id>>}
       \cup UNION {Placed(elems, kids[i], Append(q, i), ChildId(id, i)) : i \in 1..Len(kids)}

processNode(elems, p, id) ==
  LET S == Placed(elems, p, <<>>, id)
  IN [q \in {t[1] : t \in S} |->
        LET t == CHOOSE t \in S : t[1] = q IN MkNode(elems[t[2]].a, t[3])]

\* The object the catch block returns.
FallbackNode ==
  [id |-> Zero,
   f |-> [tag |-> "hierarchy", class |-> "android.widget.FrameLayout", text |-> "UI Parsing Failed - Please refresh",
          bounds |-> "[0,0][1080,1920]", clickable |-> "false", enabled |-> "true"]
           @@ ("resource-id" :> "") @@ ("content-desc" :> "UI hierarchy could not be parsed"),
   attributes |-> NoAttrs,
   rect |-> NoRect]

NoTree == [p \in {} |-> FallbackNode]

FallbackTree == (<<>> :> FallbackNode)

\* !result || !result.hierarchy || !result.hierarchy.node
MissingHierarchy(elems) ==
  \/ DOMAIN elems = {}
  \/ elems[<<>>].tag # "hierarchy"
  \/ NodeKids(elems, <<>>) = <<>>

\* The catch block: it reads xmlString.substring, which a value that is not a
\* string does not have, and then returns the minimal structure.
CatchBlock(raw) ==
  IF raw.str THEN [threw |-> FALSE, tree |-> FallbackTree]
  ELSE [threw |-> TRUE, tree |-> NoTree]

parseUIHierarchy(raw) ==
  IF CleanThrows(raw) THEN CatchBlock(raw)
  ELSE LET x == XmlParse(cleanXMLString(raw.toks))
       IN IF x.err \/ MissingHierarchy(x.elems) THEN CatchBlock(raw)
          ELSE [threw |-> FALSE,
                tree |-> processNode(x.elems, NodeKids(x.elems, <<>>)[1], Zero)]

(***************************************************************************)
(* Selectors.  A selector is a string, an object (its entries in insertion *)
(* order) or an array; a path query is a string given to findByXPath.  A   *)
(* value of an object selector is a string, a boolean, a number, undefined *)
(* or a regular expression /lit/, /^lit/, each with or without the i flag. *)
(***************************************************************************)
Val(t, str, b, n, anchored, icase) ==
  [t |-> t, s |-> str, b |-> b, n |-> n, anchored |-> anchored, icase |-> icase]

VStr(str) == Val("string", str, FALSE, 0, FALSE, FALSE)

VBool(b) == Val("boolean", "", b, 0, FALSE, FALSE)

VNum(n) == Val("number", "", FALSE, n, FALSE, FALSE)

VUndefined == Val("undefined", "", FALSE, 0, FALSE, FALSE)

VRegExp(lit, anchored, icase) == Val("regexp", lit, FALSE, 0, anchored, icase)

Entry(key, val) == [key |-> key, val |-> val]

SelString(str) == [k |-> "string", s |-> str, e |-> <<>>]

SelObject(entries) == [k |-> "object", s |-> "", e |-> entries]

SelArray(alts) == [k |-> "array", s |-> "", e |-> alts]

SelXPath(str) == [k |-> "xpath", s |-> str, e |-> <<>>]

\* String(value)
StringOf(v) ==
  CASE v.t = "string" -> v.s
    [] v.t = "boolean" -> IF v.b THEN "true" ELSE "false"
    [] v.t = "number" -> NatToString(v.n)
    [] v.t = "undefined" -> "undefined"
    [] OTHER -> "/" \o (IF v.anchored THEN "^" ELSE "") \o v.s \o "/" \o (IF v.icase THEN "i" ELSE "")

\* regexp.test(str)
Test(v, str) ==
  LET hay == IF v.icase THEN ToLowerCase(str) ELSE str
      lit == IF v.icase THEN ToLowerCase(v.s) ELSE v.s
  IN IF v.anchored THEN StartsWith(hay, lit) ELSE Includes(hay, lit)

\* new RegExp(value, 'i') of a string pattern, a leading ^ anchoring it.
RegExpOf(v) ==
  IF v.t = "regexp" THEN VRegExp(v.s, v.anchored, TRUE)
  ELSE IF StartsWith(StringOf(v), "^")
       THEN VRegExp(SubSeq(StringOf(v), 2, Len(StringOf(v))), TRUE, TRUE)
       ELSE VRegExp(StringOf(v), FALSE, TRUE)

\* The properties of a Node object that hold strings.
Has(node, name) == name \in DOMAIN node.f

\* node[name] || ''
StrOr(node, name) == IF Has(node, name) THEN node.f[name] ELSE ""

\* The properties of a Node object that hold no string.
OtherProps(node) ==
  {"id", "children"} \cup (IF Has(node, "selector") THEN {"attributes"} ELSE {})
    \cup (IF node.rect.ok THEN {"boundsRect"} ELSE {})

Defined(node, name) == Has(node, name) \/ name \in OtherProps(node)

\* node[name] === value
StrictEq(node, name, v) ==
  \/ v.t = "string" /\ Has(node, name) /\ node.f[name] = v.s
  \/ v.t = "undefined" /\ ~Defined(node, name)

\* node[name] === String(value)
FlagEq(node, name, v) == Has(node, name) /\ node.f[name] = StringOf(v)

\* Mutation of IdMatches: any resource id that ends with id.
IdEndsWith(node, id) == Has(node, "resource-id") /\ EndsWith(node.f["resource-id"], id)

\* node['resource-id'] === id || node['resource-id']?.endsWith(`:id/${id}`)
IdMatches(node, id) ==
  Has(node, "resource-id")
    /\ (node.f["resource-id"] = id \/ EndsWith(node.f["resource-id"], ":id/" \o id))

ExactOrTest(node, name, v) ==
  IF v.t = "regexp" THEN Test(v, StrOr(node, name)) ELSE StrictEq(node, name, v)

\* One case of the switch of _matchObjectSelector: TRUE when it breaks, FALSE
\* when it returns false.
MatchEntry(node, key, v) ==
  CASE key = "text" -> ExactOrTest(node, "text", v)
    [] key \in {"textContains", "contains"} ->
         \/ Includes(ToLowerCase(StrOr(node, "text")), ToLowerCase(v.s))
         \/ Includes(ToLowerCase(StrOr(node, "content-desc")), ToLowerCase(v.s))
    [] key = "textMatches" ->
         \/ Test(RegExpOf(v), StrOr(node, "text"))
         \/ Test(RegExpOf(v), StrOr(node, "content-desc"))
    [] key \in {"resourceId", "id"} ->
         IF v.t = "string" THEN IdMatches(node, v.s)
         ELSE IF v.t = "regexp" THEN Test(v, StrOr(node, "resource-id"))
         ELSE TRUE
    [] key \in {"className", "class"} -> ExactOrTest(node, "class", v)
    [] key \in {"contentDesc", "description"} -> ExactOrTest(node, "content-desc", v)
    [] key \in {"clickable", "enabled", "selected", "checked", "scrollable",
                "focusable", "focused", "index"} -> FlagEq(node, key, v)
    [] key \in {"bounds", "package"} -> StrictEq(node, key, v)
    [] OTHER -> StrictEq(node, key, v)

\* value.toLowerCase() of a value that is no string is a TypeError.
EntryThrows(key, v) == key \in {"textContains", "contains"} /\ v.t # "string"

\* Mutation of MatchEntries: one entry that matches is enough.
RECURSIVE MatchSomeEntry(_, _, _)
MatchSomeEntry(node, entries, i) ==
  IF i > Len(entries) THEN (IF entries = <<>> THEN "true" ELSE "false")
  ELSE IF EntryThrows(entries[i].key, entries[i].val) THEN "throw"
  ELSE IF MatchEntry(node, entries[i].key, entries[i].val) THEN "true"
  ELSE MatchSomeEntry(node, entries, i + 1)

\* Object.entries of an array: the indices as keys; a selector as value is
\* never === a property of the Node, which has no such key.
RECURSIVE MatchEntries(_, _, _)
MatchEntries(node, entries, i) ==
  IF i > Len(entries) THEN "true"
  ELSE IF EntryThrows(entries[i].key, entries[i].val) THEN "throw"
  ELSE IF ~MatchEntry(node, entries[i].key, entries[i].val) THEN "false"
  ELSE MatchEntries(node, entries, i + 1)

\* _matchObjectSelector: "true", "false" or "throw".
matchObjectSelector(node, selector) ==
  IF selector.k = "array"
  THEN (IF selector.e = <<>> THEN "true" ELSE "false")
  ELSE MatchEntries(node, selector.e, 1)

(***************************************************************************)
(* _matchStringSelector and its three regular expressions.                 *)
(***************************************************************************)
\* The end of the longest run of characters outside stop that starts at i.
RECURSIVE RunEnd(_, _, _)
RunEnd(s, i, stop) ==
  IF i <= Len(s) /\ Ch(s, i) \notin stop THEN RunEnd(s, i + 1, stop) ELSE i - 1

Quotes == {"\"", "'"}

NoMatch == [ok |-> FALSE, attr |-> "", value |-> ""]

\* ["']?([^"'\]]+)["']?\] tried at j.
ValueAt(s, j) ==
  LET from == IF j <= Len(s) /\ Ch(s, j) \in Quotes THEN j + 1 ELSE j
      to == RunEnd(s, from, Quotes \cup {"]"})
      close == IF to + 1 <= Len(s) /\ Ch(s, to + 1) \in Quotes THEN to + 2 ELSE to + 1
  IN [ok |-> to >= from /\ close <= Len(s) /\ Ch(s, close) = "]",
      value |-> SubSeq(s, from, to)]

\* /\[([^=]+)=["']?([^"'\]]+)["']?\]/ tried at i.
AttrEqAt(s, i) ==
  LET e == IndexFrom(s, "=", i + 1)
  IN IF Ch(s, i) = "[" /\ e > i + 1 /\ ValueAt(s, e + 1).ok
     THEN [ok |-> TRUE, attr |-> SubSeq(s, i + 1, e - 1), value |-> ValueAt(s, e + 1).value]
     ELSE NoMatch

\* /\[([^*]+)\*=["']?([^"'\]]+)["']?\]/ tried at i.
AttrContainsAt(s, i) ==
  LET e == IndexFrom(s, "*", i + 1)
  IN IF Ch(s, i) = "[" /\ e > i + 1 /\ e + 1 <= Len(s) /\ Ch(s, e + 1) = "="
          /\ ValueAt(s, e + 2).ok
     THEN [ok |-> TRUE, attr |-> SubSeq(s, i + 1, e - 1), value |-> ValueAt(s, e + 2).value]
     ELSE NoMatch

\* /\[([^=\]]+)\]/ tried at i.
AttrExistsAt(s, i) ==
  LET to == RunEnd(s, i + 1, {"=", "]"})
  IN IF Ch(s, i) = "[" /\ to >= i + 1 /\ to + 1 <= Len(s) /\ Ch(s, to + 1) = "]"
     THEN [ok |-> TRUE, attr |-> SubSeq(s, i + 1, to), value |-> ""]
     ELSE NoMatch

\* selector.match(re): the match at the first place that has one.
FirstMatch(s, At(_, _)) ==
  LET hits == {i \in 1..Len(s) : At(s, i).ok}
  IN IF hits = {} THEN NoMatch ELSE At(s, CHOOSE i \in hits : \A j \in hits : i <= j)

\* The text and content-desc comparison that ends _matchStringSelector.
TextOrDesc(node, selector) ==
  \/ Has(node, "text") /\ node.f["text"] = selector
  \/ Has(node, "content-desc") /\ node.f["content-desc"] = selector

BareString(node, selector) ==
  IF Includes(selector, ".") THEN Has(node, "class") /\ node.f["class"] = selector
  ELSE TextOrDesc(node, selector)

matchStringSelector(node, selector) ==
  LET eq == FirstMatch(selector, AttrEqAt)
      has == FirstMatch(selector, AttrContainsAt)
      ex == FirstMatch(selector, AttrExistsAt)
  IN IF StartsWith(selector, "#")
     THEN IdMatches(node, SubSeq(selector, 2, Len(selector)))
     ELSE IF StartsWith(selector, ".")
     THEN StrOr(node, "class") # ""
            /\ Includes(node.f["class"], SubSeq(selector, 2, Len(selector)))
     ELSE IF StartsWith(selector, "[") /\ EndsWith(selector, "]")
     THEN IF eq.ok THEN Has(node, eq.attr) /\ node.f[eq.attr] = eq.value
          ELSE IF has.ok
               THEN StrOr(node, has.attr) # "" /\ Includes(node.f[has.attr], has.value)
          ELSE IF ex.ok THEN Defined(node, ex.attr)
          ELSE BareString(node, selector)
     ELSE BareString(node, selector)

\* _matchesSelector: "true", "false" or "throw".
matchesSelector(node, selector) ==
  IF selector.k = "string"
  THEN (IF matchStringSelector(node, selector.s) THEN "true" ELSE "false")
  ELSE IF selector.k \in {"object", "array"} THEN matchObjectSelector(node, selector)
  ELSE "false"

(***************************************************************************)
(* Path queries.                                                           *)
(***************************************************************************)
\* /@name=['"]([^'"]+)['"]/ anywhere in predicate: the value, "" when no match.
PredicateValue(predicate, name) ==
  LET key == "@" \o name \o "="
      starts == {i \in 1..Len(predicate) :
                   /\ i + Len(key) <= Len(predicate)
                   /\ SubSeq(predicate, i, i + Len(key) - 1) = key
                   /\ Ch(predicate, i + Len(key)) \in Quotes
                   /\ LET to == RunEnd(predicate, i + Len(key) + 1, Quotes)
                      IN to >= i + Len(key) + 1 /\ to + 1 <= Len(predicate)}
      i0 == CHOOSE i \in starts : \A j \in starts : i <= j
  IN IF starts = {} THEN [ok |-> FALSE, value |-> ""]
     ELSE [ok |-> TRUE,
           value |-> SubSeq(predicate, i0 + Len(key) + 1,
                            RunEnd(predicate, i0 + Len(key) + 1, Quotes))]

IsDigits(s) == Len(s) > 0 /\ \A i \in 1..Len(s) : Ch(s, i) \in Digits

evaluatePredicate(node, predicate) ==
  LET text == PredicateValue(predicate, "text")
      rid == PredicateValue(predicate, "resource-id")
      desc == PredicateValue(predicate, "content-desc")
      click == PredicateValue(predicate, "clickable")
  IN IF text.ok THEN Has(node, "text") /\ node.f["text"] = text.value
     ELSE IF rid.ok THEN Has(node, "resource-id") /\ node.f["resource-id"] = rid.value
     ELSE IF desc.ok THEN Has(node, "content-desc") /\ node.f["content-desc"] = desc.value
     ELSE IF click.ok THEN Has(node, "clickable") /\ node.f["clickable"] = click.value
     ELSE IF IsDigits(predicate)
          THEN ToNumber(predicate) >= 1 /\ Has(node, "index")
                 /\ node.f["index"] = NatToString(ToNumber(predicate) - 1)
     ELSE FALSE

matchesXPathElement(node, elementName, predicate) ==
  IF elementName # "*" /\ ~(Has(node, "class") /\ Includes(node.f["class"], elementName))
  THEN FALSE
  ELSE IF predicate # "" THEN evaluatePredicate(node, predicate)
  ELSE TRUE

\* path.split('[')[0]
ElementName(path) ==
  LET b == IndexFrom(path, "[", 1)
  IN IF b = 0 THEN path ELSE SubSeq(path, 1, b - 1)

\* parts[1] ? parts[1].replace(']', '') : null, null and '' both being falsy.
PredicateOf(path) ==
  LET b == IndexFrom(path, "[", 1)
      b2 == IF b = 0 THEN 0 ELSE IndexFrom(path, "[", b + 1)
      part == IF b = 0 THEN ""
              ELSE SubSeq(path, b + 1, IF b2 = 0 THEN Len(path) ELSE b2 - 1)
      c == IndexFrom(part, "]", 1)
  IN IF c = 0 THEN part ELSE SubSeq(part, 1, c - 1) \o SubSeq(part, c + 1, Len(part))

(***************************************************************************)
(* Tree search and the element handle.  A reference to a Node of a tree is *)
(* its path.                                                               *)
(***************************************************************************)
\* Mutation of searchElements: the node pushed after its children's matches.
RECURSIVE searchElementsPostOrder(_, _, _), SearchKidsPostOrder(_, _, _, _)
searchElementsPostOrder(tree, p, selector) ==
  SearchKidsPostOrder(tree, p, selector, 1)
    \o (IF matchesSelector(tree[p], selector) = "true" THEN <<p>> ELSE <<>>)

SearchKidsPostOrder(tree, p, selector, i) ==
  IF i > KidCount(tree, p) THEN <<>>
  ELSE searchElementsPostOrder(tree, Append(p, i), selector)
         \o SearchKidsPostOrder(tree, p, selector, i + 1)

RECURSIVE searchElements(_, _, _), SearchKids(_, _, _, _)
\* _searchElements(node, selector): the matches, in the order they are pushed.
searchElements(tree, p, selector) ==
  (IF matchesSelector(tree[p], selector) = "true" THEN <<p>> ELSE <<>>)
    \o SearchKids(tree, p, selector, 1)

SearchKids(tree, p, selector, i) ==
  IF i > KidCount(tree, p) THEN <<>>
  ELSE searchElements(tree, Append(p, i), selector) \o SearchKids(tree, p, selector, i + 1)

\* A TypeError thrown by a matcher leaves _searchElements at once.
SearchThrows(tree, selector) ==
  \E p \in DOMAIN tree : matchesSelector(tree[p], selector) = "throw"

RECURSIVE findByElementName(_, _, _, _), FindKidsByName(_, _, _, _, _)
findByElementName(tree, p, elementName, predicate) ==
  (IF matchesXPathElement(tree[p], elementName, predicate) THEN <<p>> ELSE <<>>)
    \o FindKidsByName(tree, p, elementName, predicate, 1)

FindKidsByName(tree, p, elementName, predicate, i) ==
  IF i > KidCount(tree, p) THEN <<>>
  ELSE findByElementName(tree, Append(p, i), elementName, predicate)
         \o FindKidsByName(tree, p, elementName, predicate, i + 1)

RECURSIVE getAllElements(_, _), AllKids(_, _, _)
getAllElements(tree, p) == <<p>> \o AllKids(tree, p, 1)

AllKids(tree, p, i) ==
  IF i > KidCount(tree, p) THEN <<>>
  ELSE getAllElements(tree, Append(p, i)) \o AllKids(tree, p, i + 1)

\* Mutation of evaluateChildPath: the search goes on below the children.
evaluateChildPathDeep(tree, path) ==
  FindKidsByName(tree, <<>>, ElementName(path), PredicateOf(path), 1)

evaluateChildPath(tree, path) ==
  SelectSeq([i \in 1..KidCount(tree, <<>>) |-> <<i>>],
            LAMBDA c : matchesXPathElement(tree[c], ElementName(path), PredicateOf(path)))

evaluateXPath(tree, xpath) ==
  IF xpath = "//*" THEN getAllElements(tree, <<>>)
  ELSE IF StartsWith(xpath, "//")
  THEN findByElementName(tree, <<>>, ElementName(SubSeq(xpath, 3, Len(xpath))),
                         PredicateOf(SubSeq(xpath, 3, Len(xpath))))
  ELSE IF StartsWith(xpath, "/") THEN evaluateChildPath(tree, SubSeq(xpath, 2, Len(xpath)))
  ELSE <<>>

\* new AndroidElement(device, data): data is the Node at ref.
AndroidElement(data, ref) ==
  LET bounds == IF StrOr(data, "bounds") # "" THEN data.f["bounds"] ELSE "[0,0][0,0]"
  IN [ref |-> ref,
      id |-> data.id,
      tag |-> IF StrOr(data, "tag") # "" THEN data.f["tag"] ELSE "node",
      className |-> IF StrOr(data, "class") # "" THEN data.f["class"]
                    ELSE IF StrOr(data, "tag") # "" THEN data.f["tag"]
                    ELSE "android.view.View",
      resourceId |-> StrOr(data, "resource-id"),
      text |-> StrOr(data, "text"),
      contentDesc |-> StrOr(data, "content-desc"),
      bounds |-> bounds,
      index |-> IF StrOr(data, "index") # "" THEN data.f["index"] ELSE "0",
      package |-> StrOr(data, "package"),
      isClickable |-> StrOr(data, "clickable") = "true",
      isLongClickable |-> StrOr(data, "long-clickable") = "true",
      isEnabled |-> ~(Has(data, "enabled") /\ data.f["enabled"] = "false"),
      isSelected |-> StrOr(data, "selected") = "true",
      isFocused |-> StrOr(data, "focused") = "true",
      isFocusable |-> StrOr(data, "focusable") = "true",
      isScrollable |-> StrOr(data, "scrollable") = "true",
      isCheckable |-> StrOr(data, "checkable") = "true",
      isChecked |-> StrOr(data, "checked") = "true",
      isPassword |-> StrOr(data, "password") = "true",
      isVisibleToUser |-> ~(Has(data, "visible-to-user") /\ data.f["visible-to-user"] = "false"),
      boundsRect |-> ParseBounds(bounds),
      attributes |-> IF Has(data, "selector") THEN data.attributes ELSE data.f]

\* AndroidElement.isVisible
isVisible(el) ==
  el.isVisibleToUser /\ el.boundsRect.ok /\ el.boundsRect.width > 0 /\ el.boundsRect.height > 0

\* Boolean(value)
BooleanOf(v) ==
  CASE v.t = "string" -> v.s # ""
    [] v.t = "boolean" -> v.b
    [] v.t = "number" -> v.n # 0
    [] v.t = "undefined" -> FALSE
    [] OTHER -> TRUE

\* value instanceof RegExp ? value.test(str) : str === value
TestOrSame(v, str) == IF v.t = "regexp" THEN Test(v, str) ELSE v.t = "string" /\ str = v.s

\* One case of the switch of AndroidElement.matches: TRUE when it breaks, FALSE
\* when it returns false.
ElementEntry(el, key, v) ==
  CASE key \in {"resourceId", "id"} ->
         \/ v.t = "string" /\ el.resourceId = v.s
         \/ EndsWith(el.resourceId, ":id/" \o StringOf(v))
    [] key = "text" -> TestOrSame(v, el.text)
    [] key \in {"contains", "textContains"} ->
         \/ Includes(ToLowerCase(el.text), ToLowerCase(v.s))
         \/ Includes(ToLowerCase(el.contentDesc), ToLowerCase(v.s))
    [] key \in {"className", "class"} -> TestOrSame(v, el.className)
    [] key \in {"contentDesc", "description"} -> TestOrSame(v, el.contentDesc)
    [] key = "clickable" -> el.isClickable = BooleanOf(v)
    [] key = "enabled" -> el.isEnabled = BooleanOf(v)
    [] OTHER -> IF v.t = "string" THEN key \in DOMAIN el.attributes /\ el.attributes[key] = v.s
                ELSE v.t = "undefined" /\ key \notin DOMAIN el.attributes

RECURSIVE ElementEntries(_, _, _)
ElementEntries(el, entries, i) ==
  IF i > Len(entries) THEN "true"
  ELSE IF EntryThrows(entries[i].key, entries[i].val) THEN "throw"
  ELSE IF ~ElementEntry(el, entries[i].key, entries[i].val) THEN "false"
  ELSE ElementEntries(el, entries, i + 1)

\* AndroidElement.matches(selector): "true", "false" or "throw".
matches(el, selector) ==
  IF selector.k \in {"string", "xpath"}
  THEN IF (IF StartsWith(selector.s, "#")
           THEN LET id == SubSeq(selector.s, 2, Len(selector.s))
                IN el.resourceId = id \/ EndsWith(el.resourceId, ":id/" \o id)
           ELSE IF StartsWith(selector.s, ".")
           THEN Includes(el.className, SubSeq(selector.s, 2, Len(selector.s)))
           ELSE el.text = selector.s \/ el.contentDesc = selector.s)
       THEN "true" ELSE "false"
  ELSE IF selector.k = "array" THEN (IF selector.e = <<>> THEN "true" ELSE "false")
  ELSE ElementEntries(el, selector.e, 1)

Handles(tree, refs) == [i \in 1..Len(refs) |-> AndroidElement(tree[refs[i]], refs[i])]

Threw == [threw |-> TRUE, els |-> <<>>]

Returned(els) == [threw |-> FALSE, els |-> els]

\* Selector.findElements on the snapshot getUIHierarchy returned.
findElements(tree, selector) ==
  IF SearchThrows(tree, selector) THEN Threw
  ELSE Returned(Handles(tree, searchElements(tree, <<>>, selector)))

\* Mutation of findElement: the last match instead of the first.
findElementLast(tree, selector) ==
  LET all == findElements(tree, selector)
  IN IF all.threw THEN Threw
     ELSE Returned(IF Len(all.els) > 0 THEN <<all.els[Len(all.els)]>> ELSE <<>>)

\* Selector.findElement: the element, or null (here: no element).
findElement(tree, selector) ==
  LET all == findElements(tree, selector)
  IN IF all.threw THEN Threw
     ELSE Returned(IF Len(all.els) > 0 THEN <<all.els[1]>> ELSE <<>>)

findByXPath(tree, xpath) == Returned(Handles(tree, evaluateXPath(tree, xpath)))

(***************************************************************************)
(* State.                                                                  *)
(***************************************************************************)
VARIABLES
  xmlString,     \* the raw dump handed to parseUIHierarchy
  defect,        \* how that dump was damaged, "none" for a well-formed one
  parsed,        \* what parseUIHierarchy did with it: [done, threw, tree]
  selector,      \* the selector (or path query) of the queries made
  all,           \* what findElements / findByXPath returned
  one,           \* what findElement returned
  matched,       \* what element.matches returned, and for which handle
  now,           \* Date.now(), in ms
  screen,        \* the device: the UI it shows and when that UI changes
  uiHierarchy,   \* AndroidDevice._uiHierarchy: the cached tree, NoTree for null
  lastUIUpdate,  \* AndroidDevice._lastUIUpdate
  client,        \* the async calls of each caller: where each one stands
  inFlight,      \* the adb commands issued and not yet completed
  monitor,       \* NetworkMonitor: isMonitoring, its interval timer, its commands
  call,          \* history: the last pass through AndroidDevice.getUIHierarchy
  capture,       \* history: the last capture that completed
  input,         \* history: the last input command sent to the device
  launch,        \* a call of ADB.startApp: where it stands and what it tried
  fetch,         \* a call of ADB.getUIHierarchy: where it stands and what it ran
  watch          \* NetworkMonitor under monitorAction: its flag, timers and data

parseVars == <<xmlString, defect, parsed>>

queryVars == <<selector, all, one, matched>>

sessionVars ==
  <<now, screen, uiHierarchy, lastUIUpdate, client, inFlight, monitor, call, capture,
    input>>

toolVars == <<launch, fetch, watch>>

vars == <<parseVars, queryVars, sessionVars, toolVars>>

Clients == {1, 2}

NotParsed == [done |-> FALSE, threw |-> FALSE, tree |-> NoTree]

NotAsked == [done |-> FALSE, threw |-> FALSE, els |-> <<>>]

NotMatched == [done |-> FALSE, ref |-> <<>>, result |-> ""]

\* No error object: the call has not thrown.  An error object is kept as its
\* name and what its message is built from.
NoError == [name |-> "", text |-> "", selector |-> <<>>, timeout |-> 0]

NoReturn == [kind |-> "none", at |-> 0, tree |-> NoTree, els |-> <<>>, error |-> NoError]

IdleClient ==
  [pc |-> "idle", op |-> "none", phase |-> "", selector |-> SelString(""),
   timeout |-> 0, visible |-> TRUE, hidden |-> FALSE,
   startTime |-> 0, callNow |-> 0, issued |-> 0, due |-> 0, calls |-> 0,
   captureTime |-> 0, tree |-> NoTree, seen |-> NoReturn, ret |-> NoReturn,
   held |-> NoReturn, acts |-> 0, taps |-> 0,
   maxScrolls |-> 0, i |-> 0, queries |-> 0, scrolls |-> 0, sized |-> FALSE]

NoCall ==
  [made |-> FALSE, at |-> 0, force |-> FALSE, hadSnapshot |-> FALSE, age |-> 0,
   captured |-> FALSE, before |-> NoTree, stampBefore |-> 0,
   after |-> NoTree, stampAfter |-> 0, commands |-> 0, returned |-> NoTree]

NoCapture == [made |-> FALSE, issuedAt |-> 0, doneAt |-> 0, shown |-> 0]

NoInput ==
  [made |-> FALSE, command |-> "", x1 |-> 0, y1 |-> 0, x2 |-> 0, y2 |-> 0, at |-> 0,
   by |-> NoReturn, cached |-> NoTree]

MonitorOff ==
  [pc |-> "off", isMonitoring |-> FALSE, interval |-> 0, fireAt |-> -1, opDue |-> -1,
   logDues |-> <<>>]

\* How a call of an adb tool ended: "return" with the text returned, "throw"
\* with the message of the error.
NoOutcome == [kind |-> "none", text |-> ""]

\* startApp has not been called.
NoLaunch ==
  [pc |-> "idle", packageName |-> "", method |-> 0, startTime |-> 0, result |-> "",
   failures |-> <<>>, ret |-> NoOutcome]

\* adb.getUIHierarchy has not been called.
NoFetch == [pc |-> "idle", method |-> 0, step |-> 0, ran |-> <<>>, ret |-> NoOutcome]

\* new NetworkMonitor(device)
NoWatch ==
  [pc |-> "idle", isMonitoring |-> FALSE, timers |-> 0, pending |-> 0,
   httpRequests |-> 0, threw |-> FALSE, calls |-> 0, ret |-> [kind |-> "none", totalRequests |-> 0]]

ToolIdle == launch = NoLaunch /\ fetch = NoFetch /\ watch = NoWatch

\* A device that shows its first screen and stays there.
StillScreen == [shown |-> 1, changeAt |-> -1, changedAt |-> -1]

ParseIdle == xmlString = RawNull /\ defect = "none" /\ parsed = NotParsed

QueryIdle ==
  selector = SelString("") /\ all = NotAsked /\ one = NotAsked /\ matched = NotMatched

\* new AndroidDevice(): nothing cached, nothing in flight.
SessionIdle ==
  /\ now = 0
  /\ uiHierarchy = NoTree
  /\ lastUIUpdate = 0
  /\ client = [c \in Clients |-> IdleClient]
  /\ inFlight = 0
  /\ monitor = MonitorOff
  /\ call = NoCall
  /\ capture = NoCapture
  /\ input = NoInput

(***************************************************************************)
(* The dumps the parser is run on.                                         *)
(***************************************************************************)
MaxNodes == 3

ButtonOK ==
  ("class" :> "android.widget.Button") @@ ("text" :> "OK") @@ ("clickable" :> "true")
    @@ ("bounds" :> "[0,0][100,50]")

LabelAmp ==
  ("text" :> "Tom & Jerry") @@ ("resource-id" :> "com.app:id/title")
    @@ ("enabled" :> "false") @@ ("index" :> "1")

ParseAttrs == {NoAttrs, ButtonOK, LabelAmp}

NodeToks(attrs) == {Open("node", a) : a \in attrs} \cup {Close("node")}

Depth(toks, k) ==
  Cardinality({i \in 1..k : toks[i].t = "open"}) - Cardinality({i \in 1..k : toks[i].t = "close"})

Balanced(toks) ==
  /\ \A k \in 1..Len(toks) : Depth(toks, k) >= 0
  /\ Depth(toks, Len(toks)) = 0

\* Every run of 1..max properly nested node elements with attributes of attrs.
ForestsOver(attrs, max) ==
  UNION {{toks \in [1..(2 * n) -> NodeToks(attrs)] : Balanced(toks)} : n \in 1..max}

Forests == ForestsOver(ParseAttrs, MaxNodes)

Rotation == ("rotation" :> "0")

Wrap(tag, forest) == <<Open(tag, Rotation)>> \o forest \o <<Close(tag)>>

Input(raw, d) == [raw |-> raw, defect |-> d]

\* A run of n nested elements whose innermost one holds two leaves.
RECURSIVE Nested(_)
Nested(n) ==
  IF n = 0 THEN <<Open("node", ButtonOK), Close("node"), Open("node", ButtonOK), Close("node")>>
  ELSE <<Open("node", NoAttrs)>> \o Nested(n - 1) \o <<Close("node")>>

\* How deep the dumps of a real screen nest their elements.
ScreenDepths == {3, 7}

WellFormed ==
  {Input(RawString(Wrap("hierarchy", f)), "none") :
     f \in Forests \cup {Nested(n) : n \in ScreenDepths}}

\* Real-world quirks the cleaner removes: a preamble, control characters, blanks.
Quirky ==
  {Input(RawString(<<WsTok, TextTok, DeclTok, Open("hierarchy", Rotation), CtlTok>>
                     \o f \o <<Close("hierarchy"), WsTok>>), "quirks") : f \in Forests}

\* Cut after k tokens, inside the next tag or right after the last whole one.
Truncated ==
  UNION {{Input(RawString(SubSeq(Wrap("hierarchy", f), 1, k) \o tail), "truncated") :
            k \in 1..(2 * MaxNodes - 1), tail \in {<<>>, <<CutTok(ButtonOK)>>}} :
         f \in {g \in Forests : Len(g) = 2 * MaxNodes}}

NoRoot ==
  {Input(RawString(f), "noroot") : f \in Forests}
    \cup {Input(RawString(Wrap("other", f)), "noroot") : f \in Forests}

NoNode ==
  {Input(RawString(Wrap("hierarchy", <<>>)), "nonode"),
   Input(RawString(<<Open("hierarchy", NoAttrs), Close("hierarchy")>>), "nonode"),
   Input(RawString(Wrap("hierarchy", <<Open("other", NoAttrs), Close("other")>>)), "nonode")}

Empty ==
  {Input(RawString(<<>>), "empty"), Input(RawString(<<WsTok>>), "empty"),
   Input(RawString(<<TextTok>>), "noroot")}

NotAString == {Input(RawNull, "notastring")}

ParseInputs == WellFormed \cup Quirky \cup Truncated \cup NoRoot \cup NoNode \cup Empty \cup NotAString

ParseInit ==
  /\ \E inp \in ParseInputs : xmlString = inp.raw /\ defect = inp.defect
  /\ parsed = NotParsed
  /\ QueryIdle
  /\ SessionIdle /\ screen = StillScreen
  /\ ToolIdle

\* A call parseUIHierarchy(xmlString).
Parse ==
  /\ ~parsed.done
  /\ parsed' = [done |-> TRUE] @@ parseUIHierarchy(xmlString)
  /\ UNCHANGED <<xmlString, defect, queryVars, sessionVars, toolVars>>

ParseNext == Parse

SpecParse == ParseInit /\ [][ParseNext]_vars

(***************************************************************************)
(* Pre-order: parent before children, children left to right.              *)
(***************************************************************************)
IsPrefix(p, q) == Len(p) <= Len(q) /\ SubSeq(q, 1, Len(p)) = p

PathLess(p, q) ==
  \/ p # q /\ IsPrefix(p, q)
  \/ \E i \in 1..Len(p) :
       /\ i <= Len(q)
       /\ SubSeq(p, 1, i - 1) = SubSeq(q, 1, i - 1)
       /\ p[i] < q[i]

\* The paths of S in pre-order.
RECURSIVE PreOrderOf(_)
PreOrderOf(S) ==
  IF S = {} THEN <<>>
  ELSE LET m == CHOOSE p \in S : \A q \in S \ {p} : PathLess(p, q)
       IN <<m>> \o PreOrderOf(S \ {m})

(***************************************************************************)
(* Claims about the parser, checked under SpecParse.                       *)
(***************************************************************************)

\* C1: parseUIHierarchy never throws or rejects, whatever raw dump it is given,
\* a value that is not a string included; it always resolves to a Node.
C1_NeverThrows == parsed.done => (~parsed.threw /\ <<>> \in DOMAIN parsed.tree)

StructuralFailure == defect \in {"noroot", "nonode", "truncated", "empty"}

IsDegraded(tree) ==
  /\ DOMAIN tree = {<<>>}
  /\ StartsWith(tree[<<>>].f["text"], "UI Parsing Failed")
  /\ tree[<<>>].f["content-desc"] = "UI hierarchy could not be parsed"

\* C2: when structural parsing of the dump fails (no hierarchy root, no root
\* node, a truncated element, empty input) the result is exactly one Node with
\* no children, whose text is the failure marker and whose content description
\* is the diagnostic.
C2_DegradedOnFailure ==
  (parsed.done /\ StructuralFailure) => (~parsed.threw /\ IsDegraded(parsed.tree))

C2_Witness ==
  /\ parsed.done /\ defect = "truncated" /\ IsDegraded(parsed.tree)
  /\ xmlString.toks[Len(xmlString.toks)].t = "cut"

\* The attributes of the node elements of a dump, in document order.
SourceElements(toks) ==
  SelectSeq(toks, LAMBDA tok : tok.t = "open" /\ tok.tag = "node")

Verbatim(node, a) ==
  \A n \in AttrNames : node.f[n] = IF n \in DOMAIN a THEN a[n] ELSE Default(n)

RoundTrip(toks, tree) ==
  LET src == SourceElements(toks)
      order == PreOrderOf(DOMAIN tree)
  IN /\ Len(order) = Len(src)
     /\ \A i \in 1..Len(order) : Verbatim(tree[order[i]], src[i].a)

\* C3: a well-formed dump with N element tags, several directly under the
\* hierarchy root included, parses into exactly N Nodes in document order, each
\* field the source attribute verbatim or its documented default.
C3_RoundTrip ==
  (parsed.done /\ defect = "none") => (~parsed.threw /\ RoundTrip(xmlString.toks, parsed.tree))

\* What the code does keep of C3: the first element under the root, whole.
SingleTop(toks) == Cardinality({k \in 1..Len(toks) : Depth(toks, k) = 1 /\ toks[k].t = "close"}) = 1

C3_SingleTopRoundTrip ==
  (parsed.done /\ defect \in {"none", "quirks"} /\ SingleTop(StripPreamble(xmlString.toks)))
    => (~parsed.threw /\ RoundTrip(xmlString.toks, parsed.tree))

\* C22: in the tree built from a well-formed dump, however deep and however
\* wide, no two Nodes have the same id.
C22_UniqueIds ==
  (parsed.done /\ ~parsed.threw /\ defect \in {"none", "quirks"}) =>
    \A p, q \in DOMAIN parsed.tree :
      p # q => parsed.tree[p].id # parsed.tree[q].id

(***************************************************************************)
(* Queries on one snapshot: the trees and the selectors.                   *)
(***************************************************************************)
MaxQueryNodes == 3

OkButton ==
  ("class" :> "android.widget.Button") @@ ("text" :> "OK") @@ ("clickable" :> "true")
    @@ ("resource-id" :> "com.app:id/ok") @@ ("bounds" :> "[0,0][100,50]")

CancelButton ==
  ("class" :> "android.widget.Button") @@ ("text" :> "Cancel") @@ ("clickable" :> "true")
    @@ ("resource-id" :> "cancel") @@ ("bounds" :> "[0,50][100,100]") @@ ("index" :> "1")

OkLabel ==
  ("class" :> "android.widget.TextView") @@ ("content-desc" :> "OK")
    @@ ("bounds" :> "[0,0][0,0]")

QueryAttrs == {OkButton, OkLabel}

Leaf(a) == <<Open("node", a), Close("node")>>

Frame == ("class" :> "android.widget.FrameLayout") @@ ("bounds" :> "[0,0][100,100]")

\* Three buttons OK, Cancel, OK under one root.
ThreeButtons ==
  <<Open("node", Frame)>> \o Leaf(OkButton) \o Leaf(CancelButton) \o Leaf(OkButton)
    \o <<Close("node")>>

\* A node of class cls with one more attribute.
Widget(cls, name, value) ==
  ("class" :> ("android.widget." \o cls)) @@ (name :> value)
    @@ ("bounds" :> "[0,0][100,50]")

\* Views whose resource ids are, or only look like, the id "ok".
IdViews ==
  <<Open("node", Frame)>>
    \o Leaf(Widget("View", "resource-id", "ok"))
    \o Leaf(Widget("View", "resource-id", "com.app:id/ok"))
    \o Leaf(Widget("View", "resource-id", "com.app:id/look"))
    \o Leaf(Widget("View", "resource-id", "id/ok"))
    \o Leaf(Widget("View", "resource-id", "ok2"))
    \o Leaf(Widget("View", "text", "ok"))
    \o <<Close("node")>>

\* Labels whose text or description holds a '.'.
DottedLabels ==
  <<Open("node", Frame)>>
    \o Leaf(Widget("TextView", "text", "v1.0"))
    \o Leaf(Widget("TextView", "content-desc", "Done."))
    \o Leaf(Widget("TextView", "text", "Done"))
    \o <<Close("node")>>

\* Two buttons, the one with text Submit three levels below the root.
NestedSubmit ==
  <<Open("node", Frame), Open("node", Frame), Open("node", Frame)>>
    \o Leaf(Widget("Button", "text", "Submit"))
    \o <<Close("node"), Close("node")>>
    \o Leaf(Widget("Button", "text", "Cancel"))
    \o <<Close("node")>>

QueryForests ==
  ForestsOver(QueryAttrs, MaxQueryNodes)
    \cup {ThreeButtons, IdViews, DottedLabels, NestedSubmit}

QueryTrees ==
  {parseUIHierarchy(RawString(Wrap("hierarchy", f))).tree : f \in QueryForests}
    \cup {FallbackTree}

StringSelectors ==
  {SelString(str) :
     str \in {"OK", "#ok", ".Button", "[text=OK]", "[text*=O]", "[clickable]", "v1.0",
              "Done.", "Done"}}

ObjectSelectors ==
  {SelObject(<<>>),
   SelObject(<<Entry("text", VStr("OK"))>>),
   SelObject(<<Entry("clickable", VBool(TRUE))>>),
   SelObject(<<Entry("className", VStr("android.widget.Button")),
               Entry("text", VRegExp("O", TRUE, FALSE))>>),
   SelObject(<<Entry("resourceId", VStr("ok"))>>),
   SelObject(<<Entry("contains", VStr("ok"))>>),
   SelObject(<<Entry("contains", VRegExp("ok", FALSE, TRUE))>>),
   SelObject(<<Entry("text", VStr("OK")), Entry("clickable", VBool(TRUE))>>),
   SelObject(<<Entry("clickable", VBool(TRUE)), Entry("resourceId", VStr("ok"))>>),
   SelObject(<<Entry("className", VRegExp("View", FALSE, FALSE)),
               Entry("contains", VStr("ok"))>>),
   SelObject(<<Entry("resourceId", VNum(123))>>),
   SelObject(<<Entry("hint", VStr("OK"))>>),
   SelObject(<<Entry("clickable", VStr("false"))>>)}

ArraySelectors ==
  {SelArray(<<>>),
   SelArray(<<SelObject(<<Entry("text", VStr("Nope"))>>), SelObject(<<Entry("text", VStr("OK"))>>)>>),
   SelArray(<<SelObject(<<Entry("text", VStr("OK"))>>), SelString("Cancel")>>)}

PathQueries ==
  {SelXPath(str) :
     str \in {"//*", "//Button", "//Button[@text=\"OK\"]", "/Button", "//*[2]", "Button",
              "/Button[@text=\"OK\"]", "//Button[@text=\"Submit\"]",
              "/Button[@text=\"Submit\"]", "/Button[@text=\"Cancel\"]",
              "//Button[1]", "//Button[2]", "//*[1]", "//Button[0]", "//Button[x]",
              "//Button[@enabled=\"true\"]", "//Button[]"}}

Selectors == StringSelectors \cup ObjectSelectors \cup ArraySelectors \cup PathQueries

\* A device whose cache holds a fresh snapshot, and a selector to query it with.
QueryInit ==
  /\ ParseIdle
  /\ selector \in Selectors /\ all = NotAsked /\ one = NotAsked /\ matched = NotMatched
  /\ now = 0 /\ screen = StillScreen
  /\ uiHierarchy \in QueryTrees
  /\ lastUIUpdate = 0
  /\ client = [c \in Clients |-> IdleClient]
  /\ inFlight = 0
  /\ monitor = MonitorOff
  /\ call = NoCall
  /\ capture = NoCapture
  /\ input = NoInput
  /\ ToolIdle

\* Mutation of FindElements: each Node selected is marked in the cached tree.
FindElementsMarking ==
  /\ selector.k # "xpath" /\ ~all.done
  /\ all' = [done |-> TRUE] @@ findElements(uiHierarchy, selector)
  /\ uiHierarchy' =
       [p \in DOMAIN uiHierarchy |->
          IF \E i \in 1..Len(all'.els) : all'.els[i].ref = p
          THEN [uiHierarchy[p] EXCEPT !.f = ("matched" :> "true") @@ @]
          ELSE uiHierarchy[p]]
  /\ UNCHANGED <<selector, one, matched, parseVars, now, screen, lastUIUpdate, client, inFlight,
                 monitor, call, capture, input, toolVars>>

\* page.$$(selector)
FindElements ==
  /\ selector.k # "xpath" /\ ~all.done
  /\ all' = [done |-> TRUE] @@ findElements(uiHierarchy, selector)
  /\ UNCHANGED <<selector, one, matched, parseVars, sessionVars, toolVars>>

\* page.$(selector)
FindElement ==
  /\ selector.k # "xpath" /\ ~one.done
  /\ one' = [done |-> TRUE] @@ findElement(uiHierarchy, selector)
  /\ UNCHANGED <<selector, all, matched, parseVars, sessionVars, toolVars>>

\* page.$x(xpath)
FindByXPath ==
  /\ selector.k = "xpath" /\ ~all.done
  /\ all' = [done |-> TRUE] @@ findByXPath(uiHierarchy, selector.s)
  /\ UNCHANGED <<selector, one, matched, parseVars, sessionVars, toolVars>>

\* element.matches(selector) on the handle of a Node of the snapshot.
ElementMatches ==
  /\ selector.k # "xpath" /\ ~matched.done
  /\ \E p \in DOMAIN uiHierarchy :
       matched' = [done |-> TRUE, ref |-> p,
                   result |-> matches(AndroidElement(uiHierarchy[p], p), selector)]
  /\ UNCHANGED <<selector, all, one, parseVars, sessionVars, toolVars>>

QueryNext == FindElements \/ FindElement \/ FindByXPath \/ ElementMatches

SpecQuery == QueryInit /\ [][QueryNext]_vars

(***************************************************************************)
(* Claims about queries, checked under SpecQuery.                          *)
(***************************************************************************)
Refs(els) == [i \in 1..Len(els) |-> els[i].ref]

\* The Nodes of tree that sel selects, whatever the order.
MatchSet(tree, sel) ==
  IF sel.k # "xpath" THEN {p \in DOMAIN tree : matchesSelector(tree[p], sel) = "true"}
  ELSE IF sel.s = "//*" THEN DOMAIN tree
  ELSE IF StartsWith(sel.s, "//")
  THEN {p \in DOMAIN tree :
          matchesXPathElement(tree[p], ElementName(SubSeq(sel.s, 3, Len(sel.s))),
                              PredicateOf(SubSeq(sel.s, 3, Len(sel.s))))}
  ELSE IF StartsWith(sel.s, "/")
  THEN {p \in DOMAIN tree :
          /\ Len(p) = 1
          /\ matchesXPathElement(tree[p], ElementName(SubSeq(sel.s, 2, Len(sel.s))),
                                 PredicateOf(SubSeq(sel.s, 2, Len(sel.s))))}
  ELSE {}

\* C4: the list find-all returns ($$, findElements, findByXPath) holds each
\* matching Node exactly once, in pre-order (parent before children, children
\* left to right).
C4_PreOrder ==
  (all.done /\ ~all.threw) =>
    /\ \A i, j \in 1..Len(all.els) : i < j => PathLess(all.els[i].ref, all.els[j].ref)
    /\ {all.els[i].ref : i \in 1..Len(all.els)} = MatchSet(uiHierarchy, selector)

\* A parent and, after it, two of its children are in one result.
C4_Witness ==
  /\ all.done /\ ~all.threw /\ Len(all.els) >= 3
  /\ \E i, j, k \in 1..Len(all.els) :
       /\ i < j /\ j < k
       /\ IsChildPath(all.els[j].ref, all.els[i].ref)
       /\ IsChildPath(all.els[k].ref, all.els[i].ref)

\* C5: on one snapshot find-one returns the handle of the first Node of
\* find-all's result, the first match in pre-order, and null, with no error,
\* exactly when find-all's result is empty.
C5_FirstOrNull ==
  one.done =>
    LET M == MatchSet(uiHierarchy, selector)
    IN /\ one.threw = SearchThrows(uiHierarchy, selector)
       /\ ~one.threw =>
            /\ (one.els = <<>>) = (M = {})
            /\ one.els # <<>> =>
                 /\ one.els[1].ref \in M
                 /\ \A q \in M \ {one.els[1].ref} : PathLess(one.els[1].ref, q)
       /\ all.done =>
            /\ one.threw = all.threw
            /\ one.els = IF all.els = <<>> THEN <<>> ELSE <<all.els[1]>>

C5_Witness ==
  /\ one.done /\ all.done /\ Len(all.els) >= 2 /\ one.els = <<all.els[1]>>
  /\ selector.k = "object"

\* What an ordered list of alternatives selects: the result of the first
\* alternative that selects anything.
RECURSIVE FirstNonEmpty(_, _, _)
FirstNonEmpty(tree, alts, i) ==
  IF i > Len(alts) THEN <<>>
  ELSE IF findElements(tree, alts[i]).els # <<>> THEN findElements(tree, alts[i]).els
  ELSE FirstNonEmpty(tree, alts, i + 1)

\* C6: a selector that is an array of selectors is evaluated alternative by
\* alternative, in list order, and yields the whole result of the first
\* alternative that matches anything, nothing only when none does.
C6_Alternatives ==
  (all.done /\ selector.k = "array") =>
    (~all.threw /\ all.els = FirstNonEmpty(uiHierarchy, selector.e, 1))

\* The Nodes a find-all returned.
Found == {all.els[i].ref : i \in 1..Len(all.els)}

\* C15: the Nodes an object selector with several fields selects are among
\* the Nodes each of its fields selects alone: removing a field never removes
\* a Node from the result.
C15_Monotone ==
  (all.done /\ ~all.threw /\ selector.k = "object") =>
    \A i \in 1..Len(selector.e) :
      Found \subseteq MatchSet(uiHierarchy, SelObject(<<selector.e[i]>>))

\* A selector of two fields selected some Nodes, fewer than its first field
\* selects alone.
C15_Witness ==
  /\ all.done /\ ~all.threw /\ selector.k = "object" /\ Len(selector.e) = 2
  /\ Found # {}
  /\ Found # MatchSet(uiHierarchy, SelObject(<<selector.e[1]>>))

\* What the field key: v of a predicate asks of a Node: a resource id is the
\* value or ends with ":id/" and the value, or passes the regular expression;
\* every other field as the matcher of its key decides.
FieldHolds(node, key, v) ==
  IF key \in {"resourceId", "id"}
  THEN IF v.t = "regexp" THEN Test(v, StrOr(node, "resource-id"))
       ELSE \/ StrOr(node, "resource-id") = StringOf(v)
            \/ EndsWith(StrOr(node, "resource-id"), ":id/" \o StringOf(v))
  ELSE MatchEntry(node, key, v)

\* C16: a Node is selected by an object selector only if every listed field
\* matches it, whatever the key or the type of the value, and a selector with
\* no field selects every Node of the snapshot.
C16_EveryFieldMatches ==
  (all.done /\ ~all.threw /\ selector.k = "object") =>
    /\ \A p \in Found : \A i \in 1..Len(selector.e) :
         FieldHolds(uiHierarchy[p], selector.e[i].key, selector.e[i].val)
    /\ selector.e = <<>> => Found = DOMAIN uiHierarchy

\* The selector asks for the resource id x: {resourceId: x} or "#x".
AsksForId(sel, x) ==
  \/ sel.k = "string" /\ sel.s = "#" \o x
  \/ sel.k = "object" /\ sel.e = <<Entry("resourceId", VStr(x))>>

\* The ids the selectors of the model ask for.
IdsAsked == {"ok"}

\* C17: {resourceId: "x"} and "#x" select a Node if and only if its resource
\* id is exactly "x" or ends with ":id/x".
C17_ResourceIdRule ==
  \A x \in IdsAsked :
    (all.done /\ AsksForId(selector, x)) =>
      /\ ~all.threw
      /\ Found = {p \in DOMAIN uiHierarchy :
                    \/ StrOr(uiHierarchy[p], "resource-id") = x
                    \/ EndsWith(StrOr(uiHierarchy[p], "resource-id"), ":id/" \o x)}

\* The selector has selected a Node whose id is "ok" and one whose id ends
\* with ":id/ok", and no Node whose id only ends with "ok".
C17_Witness ==
  /\ all.done /\ one.done /\ AsksForId(selector, "ok") /\ Cardinality(Found) = 2
  /\ \E p \in Found : uiHierarchy[p].f["resource-id"] = "ok"
  /\ \E p \in Found : uiHierarchy[p].f["resource-id"] = "com.app:id/ok"
  /\ \E p \in DOMAIN uiHierarchy \ Found : EndsWith(uiHierarchy[p].f["resource-id"], "ok")

\* C18: the string selector "[attr*=value]" selects a Node exactly when the
\* Node's attribute attr contains value; "[attr=value]" only on equality.
C18_AttrContains ==
  \A attr \in {"text"}, value \in {"O", "OK"} :
    /\ (all.done /\ selector = SelString("[" \o attr \o "*=" \o value \o "]")) =>
         Found = {p \in DOMAIN uiHierarchy : Includes(StrOr(uiHierarchy[p], attr), value)}
    /\ (all.done /\ selector = SelString("[" \o attr \o "=" \o value \o "]")) =>
         Found = {p \in DOMAIN uiHierarchy : StrOr(uiHierarchy[p], attr) = value}

\* C19: a string selector that starts with none of '#', '.', '[' selects a
\* Node exactly when it equals the Node's text or its content description,
\* also when it holds a '.'.
C19_BareString ==
  (all.done /\ selector.k = "string" /\ selector.s # ""
     /\ Ch(selector.s, 1) \notin {"#", ".", "["}) =>
    /\ ~all.threw
    /\ Found = {p \in DOMAIN uiHierarchy :
                  \/ StrOr(uiHierarchy[p], "text") = selector.s
                  \/ StrOr(uiHierarchy[p], "content-desc") = selector.s}

\* The path query axis name[@attr="v"].
PathOf(axis, name, attr, v) == axis \o name \o "[@" \o attr \o "=\"" \o v \o "\"]"

\* The Node's class contains name and its attribute attr is v.
NamedWith(node, name, attr, v) ==
  Includes(StrOr(node, "class"), name) /\ StrOr(node, attr) = v

\* C20: "//name[pred]" returns every Node below the root, at whatever depth,
\* whose class contains name and which satisfies pred, and no Node that does
\* not; "/name[pred]" returns exactly the children of the root that do.
C20_Axes ==
  \A name \in {"Button"}, attr \in {"text"}, v \in {"OK", "Submit", "Cancel"} :
    /\ (all.done /\ selector = SelXPath(PathOf("//", name, attr, v))) =>
         /\ \A p \in DOMAIN uiHierarchy :
              (Len(p) >= 1 /\ NamedWith(uiHierarchy[p], name, attr, v)) => p \in Found
         /\ \A p \in Found : NamedWith(uiHierarchy[p], name, attr, v)
    /\ (all.done /\ selector = SelXPath(PathOf("/", name, attr, v))) =>
         Found = {p \in DOMAIN uiHierarchy :
                   Len(p) = 1 /\ NamedWith(uiHierarchy[p], name, attr, v)}

\* //Button[@text="Submit"] has returned exactly the Submit button, three
\* levels below the root of a tree that holds another button.
C20_Witness ==
  /\ all.done /\ selector = SelXPath(PathOf("//", "Button", "text", "Submit"))
  /\ Cardinality(Found) = 1
  /\ \E p \in Found : Len(p) = 3
  /\ \E q \in DOMAIN uiHierarchy \ Found :
       Includes(StrOr(uiHierarchy[q], "class"), "Button")

\* Bracketed predicates that are neither one of @text, @resource-id,
\* @content-desc, @clickable nor a positive integer.
OtherPredicates == {"", "0", "x", "@enabled=\"true\""}

\* The Node's class contains name, or name is "*".
Named(node, name) == name = "*" \/ Includes(StrOr(node, "class"), name)

\* C21: "//name[n]", n a positive integer, returns exactly the Nodes named
\* name whose index attribute is n - 1, and a bracketed predicate that is
\* neither one of the four attribute tests nor a positive integer selects no
\* Node.
C21_Positional ==
  \A name \in {"Button", "*"} :
    /\ \A n \in 1..2 :
         (all.done /\ selector = SelXPath("//" \o name \o "[" \o NatToString(n) \o "]")) =>
           Found = {p \in DOMAIN uiHierarchy :
                     /\ Named(uiHierarchy[p], name)
                     /\ StrOr(uiHierarchy[p], "index") = NatToString(n - 1)}
    /\ \A pred \in OtherPredicates :
         (all.done /\ selector = SelXPath("//" \o name \o "[" \o pred \o "]")) =>
           Found = {}

C29_MatchesAgrees ==
  (matched.done /\ selector.k \in {"string", "object"}) =>
    ((matched.result = "true")
       <=> (matchesSelector(uiHierarchy[matched.ref], selector) = "true"))

(***************************************************************************)
(* The device session: the snapshot cache, the wait loop, the callers that *)
(* share one device, and the network monitor's timer.                      *)
(*                                                                         *)
(* Time is Date.now(). It passes only while a caller awaits an adb command *)
(* or a timer; the code between two such awaits runs in one step. A        *)
(* command takes one of CommandTimes ms, and a dump shows the screen as it *)
(* is when the command completes.                                          *)
(***************************************************************************)
CacheTTL == 1000

PollInterval == 100

RefreshPeriod == 2000

RefreshWindow == 100

DefaultLogInterval == 2000

MaxTime == 2200

MaxCalls == 2

MaxSharedTime == 1200

MaxActions == 1

CommandTimes == {0, 600}

Timeouts == {500, 2100}

Pauses == {1000, 1001}

\* options.logInterval, 0 when the option is not given.
LogIntervals == {0, 500}

Screens == {1, 2, 3}

\* An OK button that lies partly left of the screen.
OffscreenOk ==
  ("class" :> "android.widget.Button") @@ ("text" :> "OK") @@ ("clickable" :> "true")
    @@ ("bounds" :> "[-5,0][10,10]")

\* Screen 1 shows a label of no size described "OK"; screen 2 adds an OK button;
\* screen 3 shows the OK button that lies partly off the screen.
ScreenForest(s) ==
  IF s = 1 THEN <<Open("node", Frame)>> \o Leaf(OkLabel) \o <<Close("node")>>
  ELSE IF s = 3 THEN <<Open("node", Frame)>> \o Leaf(OffscreenOk) \o <<Close("node")>>
  ELSE <<Open("node", Frame)>> \o Leaf(OkButton) \o Leaf(OkLabel) \o <<Close("node")>>

\* ADB.getUIHierarchy: the dump of the screen, always a string.
adbGetUIHierarchy(s) == RawString(<<DeclTok>> \o Wrap("hierarchy", ScreenForest(s)))

ScreenTrees == [s \in Screens |-> parseUIHierarchy(adbGetUIHierarchy(s)).tree]

TextOK == SelObject(<<Entry("text", VStr("OK"))>>)

SessionSelectors == {TextOK, SelString("OK")}

\* The device state a step of a caller reads and writes.
Dev ==
  [h |-> uiHierarchy, last |-> lastUIUpdate, n |-> inFlight, call |-> call,
   capture |-> capture]

\* A call begins: the caller's record, reset.
Begin(c, op, phase) ==
  [IdleClient EXCEPT !.op = op, !.phase = phase, !.startTime = now,
                     !.calls = client[c].calls + 1, !.held = client[c].held,
                     !.acts = client[c].acts, !.sized = client[c].sized]

\* The call returns (or throws) ret; the script keeps the handle it is given.
Done(r, ret) ==
  [r EXCEPT !.pc = "idle", !.phase = "", !.ret = ret,
            !.held = IF ret.kind = "element" /\ ret.els # <<>> THEN ret ELSE @]

\* Mutation of NeedsRefresh: a snapshot exactly CacheTTL old is refreshed too.
NeedsRefreshAtTTL(h, last, force, t) == h = NoTree \/ force \/ (t - last) >= CacheTTL

\* AndroidDevice.getUIHierarchy: the condition under which it captures.
NeedsRefresh(h, last, force, t) == h = NoTree \/ force \/ (t - last) > CacheTTL

\* Mutation of Accepts: the hidden option is not looked at.
AcceptsIgnoringHidden(r, el) == ~r.visible \/ isVisible(el)

\* Page.waitForSelector: is the element found an accepted result?
Accepts(r, el) == IF r.hidden THEN ~isVisible(el) ELSE (~r.visible \/ isVisible(el))

\* getUIHierarchy returned tree at time t: the caller of device.getUIHierarchy
\* has its result; Selector.findElements resumes after its await to search it.
AfterQuery(r, D, tree, t) ==
  IF r.op = "get"
  THEN [r |-> Done(r, [NoReturn EXCEPT !.kind = "tree", !.at = t, !.tree = tree]), D |-> D]
  ELSE [r |-> [r EXCEPT !.pc = "search", !.tree = tree, !.due = t], D |-> D]

\* AndroidDevice.getUIHierarchy(force) entered at time t; a capture takes d ms.
GetUIHierarchy(r, D, force, t, d) ==
  LET refresh == NeedsRefresh(D.h, D.last, force, t)
      pass == [made |-> TRUE, at |-> t, force |-> force, hadSnapshot |-> D.h # NoTree,
               age |-> IF D.capture.made THEN t - D.capture.issuedAt ELSE 0,
               captured |-> refresh, before |-> D.h, stampBefore |-> D.last,
               after |-> D.h, stampAfter |-> D.last,
               commands |-> IF refresh THEN 1 ELSE 0,
               returned |-> IF refresh THEN NoTree ELSE D.h]
  IN IF refresh
     THEN [r |-> [r EXCEPT !.pc = "capture", !.callNow = t, !.issued = t, !.due = t + d,
                           !.captureTime = @ + d],
           D |-> [D EXCEPT !.n = @ + 1, !.call = pass]]
     ELSE AfterQuery(r, [D EXCEPT !.call = pass], D.h, t)

\* JSON.stringify of a string.
Quoted(str) == "\"" \o ReplaceAll(ReplaceAll(str, "\\", "\\\\"), "\"", "\\\"") \o "\""

\* JSON.stringify of a value of an object selector: a regular expression has
\* no enumerable property.
StringifyValue(v) ==
  CASE v.t = "string" -> Quoted(v.s)
    [] v.t \in {"boolean", "number"} -> StringOf(v)
    [] OTHER -> "{}"

\* The entries JSON.stringify writes, from the i-th on: undefined is left out.
RECURSIVE StringifyEntries(_, _, _)
StringifyEntries(entries, i, first) ==
  IF i > Len(entries) THEN ""
  ELSE IF entries[i].val.t = "undefined" THEN StringifyEntries(entries, i + 1, first)
  ELSE (IF first THEN "" ELSE ",") \o Quoted(entries[i].key) \o ":"
         \o StringifyValue(entries[i].val) \o StringifyEntries(entries, i + 1, FALSE)

\* JSON.stringify(selector)
RECURSIVE JSONStringify(_)
JSONStringify(sel) ==
  LET Items[i \in 1..(Len(sel.e) + 1)] ==
        IF i > Len(sel.e) THEN ""
        ELSE (IF i = 1 THEN "" ELSE ",") \o JSONStringify(sel.e[i]) \o Items[i + 1]
  IN CASE sel.k = "object" -> "{" \o StringifyEntries(sel.e, 1, TRUE) \o "}"
       [] sel.k = "array" -> "[" \o Items[1] \o "]"
       [] OTHER -> Quoted(sel.s)

\* Page.waitForSelector: the error thrown when the loop ends.
WaitError(r) ==
  [name |-> "Error", text |-> "", selector |-> <<r.selector>>, timeout |-> r.timeout]

\* error.message
Message(error) ==
  IF error.selector = <<>> THEN error.text
  ELSE "Selector \"" \o JSONStringify(error.selector[1]) \o "\" not found after "
         \o NatToString(error.timeout) \o "ms"

\* Page.waitForSelector: the loop condition, then this.$(selector) or the throw.
LoopHead(r, D, t, d) ==
  IF t - r.startTime < r.timeout
  THEN GetUIHierarchy([r EXCEPT !.phase = "query"], D, FALSE, t, d)
  ELSE [r |-> Done(r, [NoReturn EXCEPT !.kind = "timeout", !.at = t,
                                       !.error = WaitError(r)]),
        D |-> D]

Apply(c, out) ==
  /\ client' = [client EXCEPT ![c] = out.r]
  /\ uiHierarchy' = out.D.h
  /\ lastUIUpdate' = out.D.last
  /\ inFlight' = out.D.n
  /\ call' = out.D.call
  /\ capture' = out.D.capture
  /\ UNCHANGED <<now, screen, monitor, input, parseVars, queryVars, toolVars>>

CanCall(c) == client[c].pc = "idle" /\ client[c].calls < MaxCalls

\* device.getUIHierarchy(force)
CallGetUIHierarchy(c) ==
  /\ CanCall(c)
  /\ \E force \in BOOLEAN, d \in CommandTimes :
       Apply(c, GetUIHierarchy(Begin(c, "get", "query"), Dev, force, now, d))

\* page.$(selector)
CallFindElement(c) ==
  /\ CanCall(c)
  /\ \E sel \in SessionSelectors, d \in CommandTimes :
       Apply(c, GetUIHierarchy([Begin(c, "find", "query") EXCEPT !.selector = sel],
                               Dev, FALSE, now, d))

\* page.waitForSelector(selector, {timeout, visible, hidden}):
\* visible = options.visible !== false, hidden = options.hidden === true.
CallWaitForSelector(c) ==
  /\ CanCall(c)
  /\ \E sel \in SessionSelectors, timeout \in Timeouts, visible \in BOOLEAN,
        hidden \in BOOLEAN, d \in CommandTimes :
       Apply(c, LoopHead([Begin(c, "wait", "query") EXCEPT
                            !.selector = sel, !.timeout = timeout,
                            !.visible = visible, !.hidden = hidden],
                         Dev, now, d))

\* Mutation of Shown: any first match is taken, visible or not.
ShownOrHidden(els) == els # <<>>

\* element && await element.isVisible()
Shown(els) == els # <<>> /\ isVisible(els[1])

\* scrollToElement after its query: the element is returned, or the error of
\* the query thrown, or page.scroll('down') is called.
ScrollSearched(r, found, ret) ==
  IF found.threw \/ Shown(found.els) THEN Done(r, ret)
  ELSE [r EXCEPT !.pc = "resume", !.phase = "size"]

\* waitForSelector returns the element of ret: page.click goes on to
\* element.click() with it, a script that called waitForSelector keeps it.
WaitReturns(r, ret) ==
  IF r.op = "pageClick" THEN [r EXCEPT !.pc = "resume", !.phase = "input", !.held = ret]
  ELSE Done(r, ret)

\* Selector.findElements resumes: _searchElements on the tree it was given,
\* then findElement's first-or-null, then what $'s caller does with it.
Search(c) ==
  /\ client[c].pc = "search"
  /\ \E found \in {findElement(client[c].tree, client[c].selector)} :
       LET ret == [NoReturn EXCEPT !.kind = IF found.threw THEN "error" ELSE "element",
                                   !.at = now, !.tree = client[c].tree, !.els = found.els]
           r == [client[c] EXCEPT !.tree = NoTree, !.seen = ret]
       IN client' = [client EXCEPT ![c] =
                       IF r.op = "find" THEN Done(r, ret)
                       ELSE IF r.op = "scroll" THEN ScrollSearched(r, found, ret)
                       ELSE IF ~found.threw /\ found.els # <<>> /\ Accepts(r, found.els[1])
                       THEN WaitReturns(r, ret)
                       ELSE [r EXCEPT !.pc = "sleep", !.phase = "poll",
                                      !.due = now + PollInterval]]
  /\ UNCHANGED <<now, screen, uiHierarchy, lastUIUpdate, inFlight, monitor, call, capture,
                 input, parseVars, queryVars, toolVars>>

\* page.waitForTimeout(ms)
CallWaitForTimeout(c) ==
  /\ CanCall(c)
  /\ \E ms \in Pauses :
       client' = [client EXCEPT ![c] =
                    [Begin(c, "pause", "pause") EXCEPT !.pc = "sleep", !.due = now + ms]]
  /\ UNCHANGED <<now, screen, uiHierarchy, lastUIUpdate, inFlight, monitor, call, capture,
                 input, parseVars, queryVars, toolVars>>

\* The capture a caller awaits completes: the dump is parsed, the cache and
\* its timestamp are replaced, and the caller goes on.
CaptureDone(c) ==
  /\ client[c].pc = "capture" /\ client[c].due = now
  /\ \E d \in CommandTimes :
       LET r == client[c]
           D == [Dev EXCEPT !.h = ScreenTrees[screen.shown], !.last = r.callNow,
                            !.n = @ - 1,
                            !.capture = [made |-> TRUE, issuedAt |-> r.issued,
                                         doneAt |-> now, shown |-> screen.shown]]
       IN IF r.phase = "refresh" THEN Apply(c, LoopHead(r, D, now, d))
          ELSE Apply(c, AfterQuery(r, D, D.h, now))

\* The timer a caller awaits fires: device.wait(ms) resolves.
WaitDone(c) ==
  /\ client[c].pc = "sleep" /\ client[c].due = now
  /\ client[c].phase \in {"pause", "poll"}
  /\ \E d \in CommandTimes :
       LET r == client[c]
       IN IF r.phase = "pause"
          THEN Apply(c, [r |-> Done(r, [NoReturn EXCEPT !.kind = "void", !.at = now]),
                         D |-> Dev])
          ELSE IF (now - r.startTime) % RefreshPeriod < RefreshWindow
          THEN Apply(c, GetUIHierarchy([r EXCEPT !.phase = "refresh"], Dev, TRUE, now, d))
          ELSE Apply(c, LoopHead(r, Dev, now, d))

\* Mutation of Center: the point is read from the Node the cache now holds at
\* the place the handle came from.
CenterOfCached(el, D) ==
  IF D.h # NoTree /\ el.ref \in DOMAIN D.h /\ D.h[el.ref].rect.ok
  THEN [x |-> D.h[el.ref].rect.centerX, y |-> D.h[el.ref].rect.centerY]
  ELSE [x |-> el.boundsRect.centerX, y |-> el.boundsRect.centerY]

\* this.boundsRect.centerX, this.boundsRect.centerY: the rectangle the
\* constructor parsed, whatever the device D has cached since.
Center(el, D) == [x |-> el.boundsRect.centerX, y |-> el.boundsRect.centerY]

\* adb.tap(x, y) or, for longPress, adb.swipe(x, y, x, y, duration).
SendInput(r, D, t) ==
  LET at == Center(r.held.els[1], D)
  IN [made |-> TRUE, command |-> IF r.op = "longPress" THEN "swipe" ELSE "tap",
      x1 |-> at.x, y1 |-> at.y, x2 |-> at.x, y2 |-> at.y, at |-> t,
      by |-> r.held, cached |-> D.h]

\* The default duration of longPress.
LongPressDuration == 1000

\* How long the input command of r lasts at least.
InputTime(r) == IF r.op = "longPress" THEN LongPressDuration ELSE 0

\* element.click(), element.doubleClick() or element.longPress() on the
\* handle the script holds: the check of boundsRect, then the first command.
CallAction(c) ==
  /\ client[c].pc = "idle" /\ client[c].held.els # <<>> /\ client[c].acts < MaxActions
  /\ \E op \in {"click", "doubleClick", "longPress"}, d \in CommandTimes :
       LET r == [Begin(c, op, "input") EXCEPT !.calls = client[c].calls, !.acts = @ + 1]
       IN IF ~r.held.els[1].boundsRect.ok
          THEN /\ client' = [client EXCEPT ![c] =
                    Done(r, [NoReturn EXCEPT !.kind = "error", !.at = now,
                               !.error = [NoError EXCEPT
                                            !.name = "Error",
                                            !.text = "Cannot click element without valid bounds"]])]
               /\ UNCHANGED <<inFlight, input>>
          ELSE /\ client' = [client EXCEPT ![c] =
                    [r EXCEPT !.pc = "command", !.due = now + InputTime(r) + d,
                              !.taps = @ + 1]]
               /\ inFlight' = inFlight + 1
               /\ input' = SendInput(r, Dev, now)
  /\ UNCHANGED <<now, screen, uiHierarchy, lastUIUpdate, monitor, call, capture,
                 parseVars, queryVars, toolVars>>

\* page.click(selector, options): waitForSelector(selector, options) first.
CallPageClick(c) ==
  /\ CanCall(c)
  /\ \E sel \in SessionSelectors, timeout \in Timeouts, visible \in BOOLEAN,
        hidden \in BOOLEAN, d \in CommandTimes :
       Apply(c, LoopHead([Begin(c, "pageClick", "query") EXCEPT
                            !.selector = sel, !.timeout = timeout,
                            !.visible = visible, !.hidden = hidden],
                         Dev, now, d))

\* Mutation of HasBounds: the rectangle is not looked at.
HasBoundsAlways(el) == TRUE

\* this.boundsRect is not null.
HasBounds(el) == el.boundsRect.ok

\* page.click resumes with the element waitForSelector returned:
\* element.click() checks boundsRect and sends the tap.
ResumeClick(c) ==
  /\ client[c].pc = "resume" /\ client[c].op = "pageClick"
  /\ \E d \in CommandTimes :
       LET r == client[c]
       IN IF ~HasBounds(r.held.els[1])
          THEN /\ client' = [client EXCEPT ![c] =
                    Done(r, [NoReturn EXCEPT !.kind = "error", !.at = now,
                               !.error = [NoError EXCEPT
                                            !.name = "Error",
                                            !.text = "Cannot click element without valid bounds"]])]
               /\ UNCHANGED <<inFlight, input>>
          ELSE /\ client' = [client EXCEPT ![c] =
                    [r EXCEPT !.pc = "command", !.due = now + d, !.taps = @ + 1]]
               /\ inFlight' = inFlight + 1
               /\ input' = SendInput(r, Dev, now)
  /\ UNCHANGED <<now, screen, uiHierarchy, lastUIUpdate, monitor, call, capture,
                 parseVars, queryVars, toolVars>>

\* The gap between the two taps of doubleClick.
DoubleClickGap == 100

\* device.waitForIdle: the wait after its shell command.
IdleSettle == 200

\* The adb command an action awaits completes: doubleClick waits before its
\* second tap; otherwise device.waitForIdle issues its shell command, and
\* after that command waits for the UI to settle.
CommandDone(c) ==
  /\ client[c].pc = "command" /\ client[c].due = now /\ client[c].phase # "size"
  /\ \E d \in CommandTimes :
       LET r == client[c]
       IN IF r.phase = "input" /\ r.op = "doubleClick"
          THEN /\ client' = [client EXCEPT ![c] =
                    [r EXCEPT !.pc = "sleep", !.phase = "gap", !.due = now + DoubleClickGap]]
               /\ inFlight' = inFlight - 1
          ELSE IF r.phase \in {"input", "input2"}
          THEN /\ client' = [client EXCEPT ![c] =
                    [r EXCEPT !.phase = "idle", !.due = now + d]]
               /\ inFlight' = inFlight
          ELSE /\ client' = [client EXCEPT ![c] =
                    [r EXCEPT !.pc = "sleep", !.phase = "settle", !.due = now + IdleSettle]]
               /\ inFlight' = inFlight - 1
  /\ UNCHANGED <<now, screen, uiHierarchy, lastUIUpdate, monitor, call, capture, input,
                 parseVars, queryVars, toolVars>>

\* A timer of an action fires: the second tap of doubleClick is sent, or the
\* action returns its handle.
ActionTimer(c) ==
  /\ client[c].pc = "sleep" /\ client[c].due = now
  /\ client[c].phase \in {"gap", "settle"} /\ client[c].op # "scroll"
  /\ \E d \in CommandTimes :
       LET r == client[c]
       IN IF r.phase = "gap"
          THEN /\ client' = [client EXCEPT ![c] =
                    [r EXCEPT !.pc = "command", !.phase = "input2", !.due = now + d,
                              !.taps = @ + 1]]
               /\ inFlight' = inFlight + 1
               /\ input' = SendInput(r, Dev, now)
          ELSE /\ client' = [client EXCEPT ![c] = Done(r, r.held)]
               /\ UNCHANGED <<inFlight, input>>
  /\ UNCHANGED <<now, screen, uiHierarchy, lastUIUpdate, monitor, call, capture,
                 parseVars, queryVars, toolVars>>

\* The defaults of Gestures.scroll, and the wait of scrollToElement after a
\* scroll.
ScrollDistance == 500

ScrollDuration == 300

ScrollPause == 500

\* What 'wm size' reports.
ScreenSize == [width |-> 1080, height |-> 1920]

\* Gestures.scroll('down'): adb.swipe from above the center to below it.
SendSwipe(r, D, t) ==
  [made |-> TRUE, command |-> "swipe",
   x1 |-> ScreenSize.width \div 2, y1 |-> ScreenSize.height \div 2 - ScrollDistance \div 2,
   x2 |-> ScreenSize.width \div 2, y2 |-> ScreenSize.height \div 2 + ScrollDistance \div 2,
   at |-> t, by |-> r.seen, cached |-> D.h]

\* The error scrollToElement throws after its loop.
ScrollError(r) ==
  [name |-> "Error", text |-> "scrolls", selector |-> <<r.selector>>, timeout |-> r.maxScrolls]

\* The message of that error.
ScrollMessage(error) ==
  "Element " \o JSONStringify(error.selector[1]) \o " not found after "
    \o NatToString(error.timeout) \o " scrolls"

\* scrollToElement: the head of its loop, this.$(selector) or the throw.
ScrollHead(r, D, t, d) ==
  IF r.i < r.maxScrolls
  THEN GetUIHierarchy([r EXCEPT !.phase = "query", !.queries = @ + 1], D, FALSE, t, d)
  ELSE [r |-> Done(r, [NoReturn EXCEPT !.kind = "notfound", !.at = t,
                                       !.error = ScrollError(r)]),
        D |-> D]

MaxScrolls == 2

\* page.scrollToElement(selector, maxScrolls)
CallScrollToElement(c) ==
  /\ CanCall(c)
  /\ \E sel \in SessionSelectors, maxScrolls \in 0..MaxScrolls, d \in CommandTimes :
       Apply(c, ScrollHead([Begin(c, "scroll", "query") EXCEPT
                              !.selector = sel, !.maxScrolls = maxScrolls],
                           Dev, now, d))

\* scrollToElement resumes after a query that gave no visible element:
\* Gestures.scroll asks for the screen size, which the device caches, and
\* sends the swipe.
ResumeScroll(c) ==
  /\ client[c].pc = "resume" /\ client[c].op = "scroll"
  /\ \E d \in CommandTimes :
       LET r == client[c]
       IN IF ~r.sized
          THEN /\ client' = [client EXCEPT ![c] =
                    [r EXCEPT !.pc = "command", !.phase = "size", !.due = now + d]]
               /\ UNCHANGED input
          ELSE /\ client' = [client EXCEPT ![c] =
                    [r EXCEPT !.pc = "command", !.phase = "input",
                              !.due = now + ScrollDuration + d, !.scrolls = @ + 1]]
               /\ input' = SendSwipe(r, Dev, now)
  /\ inFlight' = inFlight + 1
  /\ UNCHANGED <<now, screen, uiHierarchy, lastUIUpdate, monitor, call, capture,
                 parseVars, queryVars, toolVars>>

\* 'wm size' completes: the size is cached and the swipe sent.
ScreenSizeDone(c) ==
  /\ client[c].pc = "command" /\ client[c].due = now /\ client[c].phase = "size"
  /\ \E d \in CommandTimes :
       client' = [client EXCEPT ![c] =
                    [@ EXCEPT !.phase = "input", !.sized = TRUE,
                              !.due = now + ScrollDuration + d, !.scrolls = @ + 1]]
  /\ input' = SendSwipe(client[c], Dev, now)
  /\ UNCHANGED <<now, screen, uiHierarchy, lastUIUpdate, inFlight, monitor, call, capture,
                 parseVars, queryVars, toolVars>>

\* A timer of scrollToElement fires: after the wait for idle comes wait(500),
\* after that the next pass of the loop.
ScrollTimer(c) ==
  /\ client[c].pc = "sleep" /\ client[c].due = now
  /\ client[c].phase \in {"settle", "between"} /\ client[c].op = "scroll"
  /\ \E d \in CommandTimes :
       LET r == client[c]
       IN IF r.phase = "settle"
          THEN Apply(c, [r |-> [r EXCEPT !.phase = "between", !.due = now + ScrollPause],
                         D |-> Dev])
          ELSE Apply(c, ScrollHead([r EXCEPT !.i = @ + 1], Dev, now, d))

LogInterval(opt) == IF opt = 0 THEN DefaultLogInterval ELSE opt

\* networkMonitor.startMonitoring({logInterval, clearLogs})
StartMonitoring ==
  /\ monitor.pc = "off" /\ ~monitor.isMonitoring
  /\ \E opt \in LogIntervals, clearLogs \in BOOLEAN, d \in CommandTimes :
       IF clearLogs
       THEN /\ monitor' = [monitor EXCEPT !.pc = "clearing", !.isMonitoring = TRUE,
                                          !.interval = LogInterval(opt), !.opDue = now + d]
            /\ inFlight' = inFlight + 1
       ELSE /\ monitor' = [monitor EXCEPT !.pc = "on", !.isMonitoring = TRUE,
                                          !.interval = LogInterval(opt),
                                          !.fireAt = now + LogInterval(opt)]
            /\ inFlight' = inFlight
  /\ UNCHANGED <<now, screen, uiHierarchy, lastUIUpdate, client, call, capture,
                 input, parseVars, queryVars, toolVars>>

\* 'logcat -c' completes; _startLogcatMonitoring sets the interval timer.
ClearDone ==
  /\ monitor.pc = "clearing" /\ monitor.opDue = now
  /\ monitor' = [monitor EXCEPT !.pc = "on", !.opDue = -1, !.fireAt = now + monitor.interval]
  /\ inFlight' = inFlight - 1
  /\ UNCHANGED <<now, screen, uiHierarchy, lastUIUpdate, client, call, capture,
                 input, parseVars, queryVars, toolVars>>

\* The interval timer fires: _captureRecentLogs issues 'logcat -d -t 100'.
MonitorTick ==
  /\ monitor.fireAt = now
  /\ \E d \in CommandTimes :
       IF monitor.isMonitoring
       THEN /\ monitor' = [monitor EXCEPT !.fireAt = now + monitor.interval,
                                          !.logDues = Append(@, now + d)]
            /\ inFlight' = inFlight + 1
       ELSE /\ monitor' = [monitor EXCEPT !.fireAt = now + monitor.interval]
            /\ inFlight' = inFlight
  /\ UNCHANGED <<now, screen, uiHierarchy, lastUIUpdate, client, call, capture,
                 input, parseVars, queryVars, toolVars>>

Without(seq, i) == SubSeq(seq, 1, i - 1) \o SubSeq(seq, i + 1, Len(seq))

\* A periodic log capture completes.
LogcatDone ==
  /\ \E i \in 1..Len(monitor.logDues) :
       /\ monitor.logDues[i] = now
       /\ monitor' = [monitor EXCEPT !.logDues = Without(@, i)]
  /\ inFlight' = inFlight - 1
  /\ UNCHANGED <<now, screen, uiHierarchy, lastUIUpdate, client, call, capture,
                 input, parseVars, queryVars, toolVars>>

\* networkMonitor.stopMonitoring(): the final log commands run one after
\* another; the interval timer is left running.
StopMonitoring ==
  /\ monitor.pc = "on" /\ monitor.isMonitoring
  /\ \E d \in CommandTimes :
       monitor' = [monitor EXCEPT !.pc = "stopping", !.isMonitoring = FALSE,
                                  !.opDue = now + d]
  /\ inFlight' = inFlight + 1
  /\ UNCHANGED <<now, screen, uiHierarchy, lastUIUpdate, client, call, capture,
                 input, parseVars, queryVars, toolVars>>

FinalLogsDone ==
  /\ monitor.pc = "stopping" /\ monitor.opDue = now
  /\ monitor' = [monitor EXCEPT !.pc = "stopped", !.opDue = -1]
  /\ inFlight' = inFlight - 1
  /\ UNCHANGED <<now, screen, uiHierarchy, lastUIUpdate, client, call, capture,
                 input, parseVars, queryVars, toolVars>>

\* The app under test moves to its next screen.
ScreenChange ==
  /\ screen.changeAt = now
  /\ screen' = [shown |-> 2, changeAt |-> -1, changedAt |-> now]
  /\ UNCHANGED <<now, uiHierarchy, lastUIUpdate, client, inFlight, monitor, call, capture,
                 input, parseVars, queryVars, toolVars>>

\* The times at which something awaited completes.
Dues ==
  {client[c].due : c \in {k \in Clients : client[k].pc # "idle"}}
    \cup {t \in {screen.changeAt, monitor.fireAt, monitor.opDue} : t >= 0}
    \cup {monitor.logDues[i] : i \in 1..Len(monitor.logDues)}

\* Nothing is due now: time passes until the next thing is, up to the horizon.
AdvanceTime(horizon) ==
  /\ Dues # {} /\ \A t \in Dues : t > now
  /\ \E t \in Dues :
       /\ \A u \in Dues : t <= u
       /\ t <= horizon
       /\ now' = t
  /\ UNCHANGED <<screen, uiHierarchy, lastUIUpdate, client, inFlight, monitor, call,
                 capture, input, parseVars, queryVars, toolVars>>

\* The screen changes 350 ms into the session, or never, or has changed already.
InitialScreens ==
  {StillScreen, [StillScreen EXCEPT !.changeAt = 350], [StillScreen EXCEPT !.shown = 2]}

\* One script drives the device: its calls follow one another.
Solo == {1}

SessionInit ==
  ParseIdle /\ QueryIdle /\ SessionIdle /\ ToolIdle /\ screen \in InitialScreens

SessionNext ==
  \/ \E c \in Solo : CallGetUIHierarchy(c)
  \/ \E c \in Solo : CallFindElement(c)
  \/ \E c \in Solo : CallWaitForSelector(c)
  \/ \E c \in Solo : CallWaitForTimeout(c)
  \/ \E c \in Solo : CaptureDone(c)
  \/ \E c \in Solo : Search(c)
  \/ \E c \in Solo : WaitDone(c)
  \/ ScreenChange
  \/ AdvanceTime(MaxTime)

SpecSession == SessionInit /\ [][SessionNext]_vars

\* One script finds elements, refreshes the snapshot and acts on the handle
\* it holds.
HandleNext ==
  \/ \E c \in Solo : CallGetUIHierarchy(c)
  \/ \E c \in Solo : CallFindElement(c)
  \/ \E c \in Solo : CaptureDone(c)
  \/ \E c \in Solo : Search(c)
  \/ \E c \in Solo : CallAction(c)
  \/ \E c \in Solo : CommandDone(c)
  \/ \E c \in Solo : ActionTimer(c)
  \/ ScreenChange
  \/ AdvanceTime(MaxTime)

SpecHandle == SessionInit /\ [][HandleNext]_vars

\* One script calls page.click: the wait for the selector, then the tap.
ClickInit ==
  /\ ParseIdle /\ QueryIdle /\ SessionIdle /\ ToolIdle
  /\ screen \in InitialScreens \cup {[StillScreen EXCEPT !.shown = 3]}

ClickNext ==
  \/ \E c \in Solo : CallPageClick(c)
  \/ \E c \in Solo : CaptureDone(c)
  \/ \E c \in Solo : Search(c)
  \/ \E c \in Solo : WaitDone(c)
  \/ \E c \in Solo : ResumeClick(c)
  \/ \E c \in Solo : CommandDone(c)
  \/ \E c \in Solo : ActionTimer(c)
  \/ ScreenChange
  \/ AdvanceTime(MaxTime)

SpecClick == ClickInit /\ [][ClickNext]_vars

\* One script calls page.scrollToElement once; the horizon covers the longest
\* run of its loop.
ScrollHorizon == MaxScrolls * 3500 + 1500

\* The steps of scrollToElement besides the search of a snapshot.
ScrollSteps ==
  \/ \E c \in Solo : client[c].calls = 0 /\ CallScrollToElement(c)
  \/ \E c \in Solo : CaptureDone(c)
  \/ \E c \in Solo : ResumeScroll(c)
  \/ \E c \in Solo : ScreenSizeDone(c)
  \/ \E c \in Solo : CommandDone(c)
  \/ \E c \in Solo : ScrollTimer(c)
  \/ ScreenChange
  \/ AdvanceTime(ScrollHorizon)

ScrollNext == ScrollSteps \/ \E c \in Solo : Search(c)

\* Search is enabled exactly when a call stands at its search.
SearchPending == \E c \in Solo : client[c].pc = "search"

\* The event loop runs what is ready, timers fire and adb commands complete:
\* weak fairness of every step, that of Search written out with its guard.
SpecScroll ==
  /\ SessionInit /\ [][ScrollNext]_vars
  /\ WF_vars(ScrollSteps)
  /\ ([]<>~SearchPending \/ []<><<\E c \in Solo : Search(c)>>_vars)

\* Calls started on one device without awaiting one another (Promise.all),
\* one per caller, while the network monitor is started, ticks and is stopped.
SharedInit == ParseIdle /\ QueryIdle /\ SessionIdle /\ ToolIdle /\ screen = StillScreen

Unstarted(c) == client[c].calls = 0

SharedNext ==
  \/ \E c \in Clients : Unstarted(c) /\ CallGetUIHierarchy(c)
  \/ \E c \in Clients : Unstarted(c) /\ CallFindElement(c)
  \/ \E c \in Clients : CaptureDone(c)
  \/ \E c \in Clients : Search(c)
  \/ StartMonitoring
  \/ ClearDone
  \/ MonitorTick
  \/ LogcatDone
  \/ StopMonitoring
  \/ FinalLogsDone
  \/ AdvanceTime(MaxSharedTime)

SpecShared == SharedInit /\ [][SharedNext]_vars

(***************************************************************************)
(* Claims about the session, checked under SpecSession, SpecShared (C8)    *)
(* and SpecHandle (C13).                                                   *)
(***************************************************************************)
\* C7: getUIHierarchy(forceRefresh) captures, parses and replaces the cached
\* snapshot if and only if no snapshot is cached, forceRefresh is set, or more
\* than 1000 ms have passed since the cached capture was requested; otherwise
\* it issues no command and returns the very same cached snapshot, and cache
\* and timestamp stay as they were.
C7_CacheRule ==
  /\ call.made =>
       /\ call.captured = (~call.hadSnapshot \/ call.force \/ call.age > 1000)
       /\ call.captured => call.commands = 1
       /\ ~call.captured =>
            /\ call.commands = 0
            /\ call.returned = call.before /\ call.after = call.before
            /\ call.stampAfter = call.stampBefore
  /\ uiHierarchy = IF capture.made THEN ScreenTrees[capture.shown] ELSE NoTree
  /\ lastUIUpdate = IF capture.made THEN capture.issuedAt ELSE 0

\* A call finds a snapshot exactly 1000 ms old and returns it.
C7_Witness ==
  /\ call.made /\ ~call.captured /\ ~call.force /\ call.hadSnapshot /\ call.age = 1000
  /\ call.returned = uiHierarchy /\ uiHierarchy # NoTree

\* C8: at most one external command is in flight against the device session
\* at any time, also with concurrent queries or waits and with the network
\* monitor's periodic log capture running.
C8_OneInFlight == inFlight <= 1

\* C9: a waitForSelector with timeout T that never gets an accepted result
\* fails no earlier than T and no later than T + 100 ms after it was called.
C9_TimeoutBound ==
  \A c \in Clients :
    (client[c].op = "wait" /\ client[c].ret.kind = "timeout") =>
      /\ client[c].ret.at - client[c].startTime >= client[c].timeout
      /\ client[c].ret.at - client[c].startTime <= client[c].timeout + PollInterval

\* Scenario C has run: one caller alone, instant captures, a wait for
\* {text: 'OK'} with timeout 500 started on screen 1, 350 ms before screen 2.
ScenarioC(c) ==
  /\ client[c].op = "wait" /\ client[c].pc = "idle"
  /\ client[c].selector = TextOK /\ client[c].timeout = 500
  /\ client[c].visible /\ ~client[c].hidden
  /\ client[c].captureTime = 0
  /\ screen.changedAt = client[c].startTime + 350
  /\ \A o \in Clients \ {c} : client[o].calls = 0
  /\ monitor = MonitorOff

\* C10: in Scenario C the wait returns the match between 300 and 500 ms after
\* it was called.
C10_ScenarioC ==
  \A c \in Clients :
    ScenarioC(c) =>
      /\ client[c].ret.kind = "element"
      /\ client[c].ret.at - client[c].startTime >= 300
      /\ client[c].ret.at - client[c].startTime <= 500

\* A Node is visible: visible to the user, with valid bounds of positive
\* width and height.
VisibleNode(node) ==
  /\ ~(Has(node, "visible-to-user") /\ node.f["visible-to-user"] = "false")
  /\ node.rect.ok /\ node.rect.width > 0 /\ node.rect.height > 0

\* The guard of a wait, on the Node an evaluation found.
GuardHolds(r, node) ==
  IF r.hidden THEN ~VisibleNode(node) ELSE (r.visible => VisibleNode(node))

\* The latest evaluation of a wait found an element its guard accepts.
SawAccepted(r) ==
  /\ r.seen.kind = "element" /\ r.seen.els # <<>>
  /\ GuardHolds(r, r.seen.tree[r.seen.els[1].ref])

\* C11: when waitForSelector returns an element, that element is what the
\* selector selected first on a snapshot evaluated during that wait, and it
\* satisfies the wait's guard (default: visible; hidden: not visible;
\* visible false: any element found); the wait returns in the very iteration
\* that finds such an element, so a wait that sleeps, refreshes or times out
\* has not found one in its latest evaluation.
C11_WaitReturns ==
  \A c \in Clients :
    LET r == client[c]
    IN r.op = "wait" =>
         /\ (r.pc = "idle" /\ r.ret.kind = "element") =>
              /\ r.ret = r.seen /\ SawAccepted(r)
              /\ r.ret.at >= r.startTime
              /\ \E s \in Screens : r.ret.tree = ScreenTrees[s]
              /\ Len(r.ret.els) = 1
              /\ LET M == MatchSet(r.ret.tree, r.selector)
                     p == r.ret.els[1].ref
                 IN /\ p \in M
                    /\ \A q \in M \ {p} : PathLess(p, q)
                    /\ r.ret.els[1] = AndroidElement(r.ret.tree[p], p)
         /\ (r.pc # "idle" \/ r.ret.kind # "element") => ~SawAccepted(r)

\* A wait with hidden: true has returned an element that is not visible, one
\* with visible: false likewise, and a default wait has slept over such an
\* element before it returned a visible one.
C11_Witness ==
  \E c \in Clients :
    LET r == client[c]
    IN /\ r.op = "wait" /\ r.pc = "idle" /\ r.ret.kind = "element"
       /\ ~VisibleNode(r.ret.tree[r.ret.els[1].ref])
       /\ r.hidden /\ r.ret.at > r.startTime

\* C12: a waitForSelector whose timeout passes without an accepted result
\* fails with a TimeoutError, an error object of that type, which carries the
\* selector the wait was called with.
C12_TypedTimeout ==
  \A c \in Clients :
    (client[c].op = "wait" /\ client[c].ret.kind = "timeout") =>
      /\ client[c].ret.error.name = "TimeoutError"
      /\ Includes(Message(client[c].ret.error), JSONStringify(client[c].selector))

\* C13: a handle's geometry is that of its Node in the snapshot it was created
\* from and stays so; click, doubleClick and longPress send their input to
\* exactly the center of that rectangle, whatever the cache holds by then.
C13_FrozenGeometry ==
  /\ \A c \in Clients :
       client[c].held.els # <<>> =>
         LET el == client[c].held.els[1]
             node == client[c].held.tree[el.ref]
         IN el.bounds = node.f["bounds"] /\ el.boundsRect = node.rect
  /\ input.made =>
       LET el == input.by.els[1]
           node == input.by.tree[el.ref]
       IN /\ node.rect.ok
          /\ input.x1 = node.rect.centerX /\ input.y1 = node.rect.centerY
          /\ input.x2 = input.x1 /\ input.y2 = input.y1

\* An input was sent for a handle when the cache held a later snapshot, in
\* which the Node at the handle's place has another center.
C13_Witness ==
  /\ input.made /\ input.cached # input.by.tree
  /\ input.by.els[1].ref \in DOMAIN input.cached
  /\ input.cached[input.by.els[1].ref].rect.centerX # input.x1
  /\ input.at > input.by.at

(***************************************************************************)
(* ADB.startApp: the launch methods, tried one after another.              *)
(***************************************************************************)
LaunchTimeout == 5000

LaunchPoll == 500

Packages == {"com.app"}

\* What getCurrentActivity can report as the package in the foreground, "" when
\* it reports none.
Foregrounds == {"com.app", "com.android.launcher", ""}

\* What adb.shell does with a launch command: its output, or an error thrown.
ShellOutcomes ==
  {[threw |-> FALSE, text |-> "Starting: Intent { cmp=com.app/.Main }"],
   [threw |-> FALSE, text |-> "Error type 3"],
   [threw |-> FALSE, text |-> "** No activities found to run, monkey aborted."],
   [threw |-> TRUE, text |-> "ADB command failed: device offline"]}

\* launchMethods: the name of each method, whether it asks for the launcher
\* activity first, and the words in its output that make it throw.
launchMethods ==
  <<[name |-> "Direct Activity Launch", activity |-> TRUE, errors |-> {"Error", "Exception"}],
    [name |-> "Monkey Launch", activity |-> FALSE,
     errors |-> {"Error", "No activities found", "killed"}],
    [name |-> "Intent Launch", activity |-> FALSE, errors |-> {"Error", "No Activity found"}],
    [name |-> "Force Launch", activity |-> FALSE, errors |-> {}]>>

\* method.action(): found tells whether getLauncherActivity found an activity,
\* out is what the launch command did.
LaunchAction(m, found, out) ==
  IF m.activity /\ ~found THEN [kind |-> "throw", text |-> "No launcher activity found"]
  ELSE IF out.threw \/ \E w \in m.errors : Includes(out.text, w)
  THEN [kind |-> "throw", text |-> out.text]
  ELSE [kind |-> "return", text |-> out.text]

\* The catch of the loop over launchMethods: the failure is logged and the
\* next method tried; after the last one startApp throws.
LaunchFailed(l, message) ==
  LET failed == [l EXCEPT !.failures = Append(@, [name |-> launchMethods[l.method].name,
                                                  message |-> message])]
  IN IF l.method < Len(launchMethods)
     THEN [failed EXCEPT !.pc = "action", !.method = @ + 1]
     ELSE [failed EXCEPT !.pc = "done",
                         !.ret = [kind |-> "throw",
                                  text |-> "Unable to start app " \o l.packageName
                                             \o ". All launch methods failed."]]

\* adb.startApp(packageName): the check that the package is installed.
CallStartApp ==
  /\ launch.pc = "idle"
  /\ \E packageName \in Packages, isInstalled \in BOOLEAN :
       launch' = IF isInstalled
                 THEN [launch EXCEPT !.pc = "action", !.packageName = packageName,
                                     !.method = 1]
                 ELSE [launch EXCEPT !.pc = "done", !.packageName = packageName,
                                     !.ret = [kind |-> "throw",
                                              text |-> "Package " \o packageName
                                                         \o " is not installed"]]
  /\ UNCHANGED <<now, fetch, watch, parseVars, queryVars, screen, uiHierarchy, lastUIUpdate,
                 client, inFlight, monitor, call, capture, input>>

\* The action of the current method runs; when it returns, _waitForAppStart
\* begins.
RunLaunchAction ==
  /\ launch.pc = "action"
  /\ \E found \in BOOLEAN, out \in ShellOutcomes, d \in CommandTimes :
       LET did == LaunchAction(launchMethods[launch.method], found, out)
       IN /\ now' = now + d
          /\ launch' = IF did.kind = "throw" THEN LaunchFailed(launch, did.text)
                       ELSE [launch EXCEPT !.pc = "wait", !.result = did.text,
                                           !.startTime = now + d]
  /\ UNCHANGED <<fetch, watch, parseVars, queryVars, screen, uiHierarchy, lastUIUpdate,
                 client, inFlight, monitor, call, capture, input>>

\* _waitForAppStart(packageName, 5000): one pass of its loop.
PollForeground ==
  /\ launch.pc = "wait"
  /\ IF now - launch.startTime < LaunchTimeout
     THEN \E seen \in Foregrounds, d \in CommandTimes :
            IF seen = launch.packageName
            THEN /\ now' = now + d
                 /\ launch' = [launch EXCEPT !.pc = "done",
                                             !.ret = [kind |-> "return", text |-> launch.result]]
            ELSE /\ now' = now + d + LaunchPoll
                 /\ UNCHANGED launch
     ELSE /\ launch' = LaunchFailed(launch, "App " \o launch.packageName
                                               \o " did not start within "
                                               \o NatToString(LaunchTimeout) \o "ms")
          /\ UNCHANGED now
  /\ UNCHANGED <<fetch, watch, parseVars, queryVars, screen, uiHierarchy, lastUIUpdate,
                 client, inFlight, monitor, call, capture, input>>

Quiet == ParseIdle /\ QueryIdle /\ SessionIdle /\ ToolIdle /\ screen = StillScreen

LaunchNext == CallStartApp \/ RunLaunchAction \/ PollForeground

SpecLaunch == Quiet /\ [][LaunchNext]_vars

\* C23: startApp tries its launch methods in their order, takes a method as
\* successful only when its command succeeded and the package was then seen in
\* the foreground, stops at the first success, and when every method has
\* failed throws one error that holds the failure of each method.
C23_AggregatedError ==
  (launch.pc = "done" /\ Len(launch.failures) = Len(launchMethods)) =>
    /\ launch.ret.kind = "throw"
    /\ \A i \in 1..Len(launch.failures) :
         Includes(launch.ret.text, launch.failures[i].message)

(***************************************************************************)
(* ADB.getUIHierarchy: the dump methods, tried one after another.          *)
(***************************************************************************)
\* The minimal dump getUIHierarchy returns when no method gave one.
FallbackDump ==
  "<?xml version=\"1.0\" encoding=\"UTF-8\"?>\n<hierarchy rotation=\"0\">\n"
    \o "    <node index=\"0\" text=\"UI Dump Failed - Please refresh\"/>\n</hierarchy>"

\* What adb.shell does with a command of a dump method: its output, or an
\* error thrown.
DumpOutcomes ==
  {[threw |-> TRUE, text |-> "ADB command failed: device offline"],
   [threw |-> FALSE, text |-> ""],
   [threw |-> FALSE, text |-> "ERROR: could not get idle state."],
   [threw |-> FALSE, text |-> "UI hierchary dumped to: /sdcard/ui.xml"],
   [threw |-> FALSE, text |-> "<?xml version='1.0'?><hierarchy rotation=\"0\"><node/></hierarchy>"],
   [threw |-> FALSE, text |-> "<hierarchy rotation=\"1\"></hierarchy>UI hierchary dumped to: /dev/tty"]}

\* methods: the name of each dump method and how many shell commands its
\* action runs; the output of the last one is what the action returns.
dumpMethods ==
  <<[name |-> "Standard UI Dump", commands |-> 2],
    [name |-> "Compressed UI Dump", commands |-> 2],
    [name |-> "Direct stdout dump", commands |-> 1],
    [name |-> "Alternative location dump", commands |-> 2]>>

\* Mutation of HasHierarchy: any output that is not empty is taken.
HasOutput(xmlContent) == xmlContent # ""

\* xmlContent && xmlContent.includes('<hierarchy')
HasHierarchy(xmlContent) == xmlContent # "" /\ Includes(xmlContent, "<hierarchy")

\* The method of f has ended as the entry says: the next method is tried, and
\* after the last one the error thrown is caught and the fallback returned.
NextDumpMethod(f, entry) ==
  LET tried == [f EXCEPT !.ran = Append(@, entry)]
  IN IF f.method < Len(dumpMethods)
     THEN [tried EXCEPT !.method = @ + 1, !.step = 1]
     ELSE [tried EXCEPT !.pc = "done", !.ret = [kind |-> "return", text |-> FallbackDump]]

\* adb.getUIHierarchy()
CallAdbGetUIHierarchy ==
  /\ fetch.pc = "idle"
  /\ fetch' = [fetch EXCEPT !.pc = "run", !.method = 1, !.step = 1]
  /\ UNCHANGED <<launch, watch, parseVars, queryVars, sessionVars>>

\* A shell command of the current method completes.
DumpCommandDone ==
  /\ fetch.pc = "run"
  /\ \E out \in DumpOutcomes :
       LET entry == [method |-> fetch.method, threw |-> out.threw, text |-> out.text]
       IN fetch' =
            IF out.threw THEN NextDumpMethod(fetch, entry)
            ELSE IF fetch.step < dumpMethods[fetch.method].commands
            THEN [fetch EXCEPT !.step = @ + 1]
            ELSE IF HasHierarchy(out.text)
            THEN [fetch EXCEPT !.pc = "done", !.ran = Append(@, entry),
                               !.ret = [kind |-> "return", text |-> out.text]]
            ELSE NextDumpMethod(fetch, entry)
  /\ UNCHANGED <<launch, watch, parseVars, queryVars, sessionVars>>

DumpNext == CallAdbGetUIHierarchy \/ DumpCommandDone

SpecDump == Quiet /\ [][DumpNext]_vars

\* C26: adb.getUIHierarchy never throws; it runs its four methods in order,
\* returns the output of the first one whose output contains "<hierarchy" and
\* runs none after it, passes over a method that throws or gives other output,
\* and returns the fallback dump when all four fail: the text returned always
\* contains "<hierarchy".
C26_FirstDump ==
  LET n == Len(fetch.ran)
      Good(i) == ~fetch.ran[i].threw /\ Includes(fetch.ran[i].text, "<hierarchy")
  IN /\ \A i \in 1..n : fetch.ran[i].method = i
     /\ \A i \in 1..(n - 1) : ~Good(i)
     /\ fetch.pc = "run" => fetch.method = n + 1 /\ \A i \in 1..n : ~Good(i)
     /\ fetch.pc = "done" =>
          /\ fetch.ret.kind = "return"
          /\ Includes(fetch.ret.text, "<hierarchy")
          /\ IF Good(n) THEN fetch.ret.text = fetch.ran[n].text
             ELSE n = Len(dumpMethods) /\ fetch.ret.text = FallbackDump

\* The first two methods failed, one by throwing and one by other output, and
\* the third gave the dump that was returned.
C26_Witness ==
  /\ fetch.pc = "done" /\ Len(fetch.ran) = 3
  /\ fetch.ran[1].threw /\ ~fetch.ran[2].threw
  /\ fetch.ret.text = fetch.ran[3].text /\ fetch.ret.text # FallbackDump

(***************************************************************************)
(* NetworkMonitor.monitorAction: startMonitoring, the action, and in the   *)
(* finally block stopMonitoring.                                           *)
(***************************************************************************)
MaxWatchCalls == 2

MaxRequests == 2

MaxPending == 2

\* Log lines that pass the filters are added to capturedData.httpRequests.
Captured(w, lines) ==
  [w EXCEPT !.httpRequests = IF @ + lines > MaxRequests THEN MaxRequests ELSE @ + lines]

\* _startLogcatMonitoring: setInterval; startMonitoring returns and the
\* action function is called.
StartLogcatMonitoring(w) == [w EXCEPT !.pc = "action", !.timers = @ + 1]

\* networkMonitor.monitorAction(actionFunction, options): startMonitoring
\* up to its first await.
CallMonitorAction ==
  /\ watch.pc \in {"idle", "done"} /\ watch.calls < MaxWatchCalls
  /\ \E clearLogs \in BOOLEAN :
       LET w == [watch EXCEPT !.calls = @ + 1, !.threw = FALSE,
                              !.ret = [kind |-> "none", totalRequests |-> 0]]
           begun == [w EXCEPT !.httpRequests = 0, !.isMonitoring = TRUE]
       IN watch' = IF watch.isMonitoring THEN [w EXCEPT !.pc = "action"]
                   ELSE IF clearLogs THEN [begun EXCEPT !.pc = "clearing"]
                   ELSE StartLogcatMonitoring(begun)
  /\ UNCHANGED <<launch, fetch, parseVars, queryVars, sessionVars>>

\* 'logcat -c' completes or adb.shell throws: startMonitoring, which awaits it
\* outside any try, then rejects, and so does monitorAction.
ClearLogsDone ==
  /\ watch.pc = "clearing"
  /\ \E failed \in BOOLEAN :
       watch' = IF failed
                THEN [watch EXCEPT !.pc = "done",
                                   !.ret = [kind |-> "rejected", totalRequests |-> 0]]
                ELSE StartLogcatMonitoring(watch)
  /\ UNCHANGED <<launch, fetch, parseVars, queryVars, sessionVars>>

\* A timer fires while isMonitoring is set: _captureRecentLogs issues
\* 'logcat -d -t 100'.
WatchTick ==
  /\ watch.timers > 0 /\ watch.isMonitoring /\ watch.pending < MaxPending
  /\ watch' = [watch EXCEPT !.pending = @ + 1]
  /\ UNCHANGED <<launch, fetch, parseVars, queryVars, sessionVars>>

\* The command of _captureRecentLogs completes, whatever the monitor has done
\* since: its lines are processed into capturedData.
RecentLogsCaptured ==
  /\ watch.pending > 0
  /\ \E lines \in 0..1 : watch' = [Captured(watch, lines) EXCEPT !.pending = @ - 1]
  /\ UNCHANGED <<launch, fetch, parseVars, queryVars, sessionVars>>

\* getResults()
GetResults(w) == [kind |-> "resolved", totalRequests |-> w.httpRequests]

\* The action function returns or throws; the finally block calls
\* stopMonitoring, up to its first await.
ActionEnds ==
  /\ watch.pc = "action"
  /\ \E threw \in BOOLEAN :
       watch' = IF ~watch.isMonitoring
                THEN [watch EXCEPT !.pc = "done", !.threw = threw, !.ret = GetResults(watch)]
                ELSE [watch EXCEPT !.pc = "final", !.threw = threw, !.isMonitoring = FALSE]
  /\ UNCHANGED <<launch, fetch, parseVars, queryVars, sessionVars>>

\* _captureFinalLogs ends (its errors are caught); stopMonitoring returns the
\* results and the return in the finally block makes them monitorAction's.
FinalLogsCaptured ==
  /\ watch.pc = "final"
  /\ \E lines \in 0..1 :
       LET w == Captured(watch, lines)
       IN watch' = [w EXCEPT !.pc = "done", !.ret = GetResults(w)]
  /\ UNCHANGED <<launch, fetch, parseVars, queryVars, sessionVars>>

WatchNext ==
  \/ CallMonitorAction
  \/ ClearLogsDone
  \/ WatchTick
  \/ RecentLogsCaptured
  \/ ActionEnds
  \/ FinalLogsCaptured

SpecWatch == Quiet /\ [][WatchNext]_vars

\* C28: monitorAction always ends with isMonitoring false and resolves to the
\* monitoring results, also when the action function throws.
C28_EndsStopped ==
  watch.pc = "done" => ~watch.isMonitoring /\ watch.ret.kind = "resolved"

(***************************************************************************)
(* Claims about queries and actions of one script, checked under           *)
(* SpecHandle.                                                             *)
(***************************************************************************)
\* C24: a query made after an input action has completed is evaluated on a
\* snapshot whose capture was issued after the input was sent, never on one
\* the cache held from before the action.
C24_QueryAfterAction ==
  \A c \in Solo :
    (/\ input.made /\ call.made
     /\ client[c].op = "find" /\ client[c].pc = "idle"
     /\ call.at = client[c].startTime /\ call.at > input.at)
      => (call.captured \/ call.at - call.age > input.at)

\* C25: page.click sends a tap only after waitForSelector has returned an
\* element, sends one tap, at the center of that element, and returns only
\* after the wait for idle; when the wait times out or the element has no valid
\* bounds, it sends no tap and throws that error.
C25_ClickAfterWait ==
  \A c \in Solo :
    client[c].op = "pageClick" =>
      LET r == client[c]
      IN /\ r.taps <= 1
         /\ r.taps = 1 =>
              /\ r.seen.kind = "element" /\ r.seen.els # <<>>
              /\ Accepts(r, r.seen.els[1])
              /\ input.by = r.seen /\ input.command = "tap" /\ input.at >= r.seen.at
              /\ r.seen.els[1].boundsRect.ok
              /\ input.x1 = r.seen.els[1].boundsRect.centerX
              /\ input.y1 = r.seen.els[1].boundsRect.centerY
         /\ (r.pc = "idle" /\ r.ret.kind = "element") =>
              r.taps = 1 /\ r.ret = r.seen /\ now >= input.at + IdleSettle
         /\ (r.pc = "idle" /\ r.ret.kind = "timeout") =>
              r.taps = 0 /\ r.ret.error = WaitError(r) /\ r.ret.at - r.startTime >= r.timeout
         /\ (r.pc = "idle" /\ r.ret.kind = "error") =>
              /\ r.taps = 0
              /\ r.seen.els # <<>> /\ ~r.seen.els[1].boundsRect.ok
              /\ r.ret.error.text = "Cannot click element without valid bounds"
         /\ r.pc = "idle" => r.ret.kind \in {"element", "timeout", "error"}

\* page.click has returned after a wait that polled before the element showed:
\* the tap was sent later than the call began.
C25_Witness ==
  \E c \in Solo :
    /\ client[c].op = "pageClick" /\ client[c].pc = "idle"
    /\ client[c].ret.kind = "element" /\ client[c].taps = 1
    /\ input.at > client[c].startTime

(***************************************************************************)
(* Claims about the network monitor, checked under SpecShared.             *)
(***************************************************************************)
\* C27: after startMonitoring and stopMonitoring calls at most one periodic
\* log-capture timer exists, and once stopMonitoring has completed no timer
\* remains and no later log capture touches the data it returned.
C27_NoTimerAfterStop ==
  monitor.pc = "stopped" => monitor.fireAt < 0 /\ monitor.logDues = <<>>

(***************************************************************************)
(* Claims about scrollToElement, checked under SpecScroll.                 *)
(***************************************************************************)
\* The first match of a query result is there and visible.
FirstVisible(ret) == ret.els # <<>> /\ isVisible(ret.els[1])

ScrollState ==
  \A c \in Solo :
    client[c].op = "scroll" =>
      LET r == client[c]
      IN /\ r.scrolls <= r.maxScrolls /\ r.queries <= r.maxScrolls
         /\ r.scrolls \in {r.queries - 1, r.queries} \/ r.queries = 0
         /\ (r.scrolls > 0 /\ input.made) => input.command = "swipe" /\ ~FirstVisible(input.by)
         /\ (r.pc = "idle" /\ r.ret.kind = "element") =>
              /\ FirstVisible(r.ret) /\ r.ret = r.seen
              /\ r.ret.els = findElement(r.ret.tree, r.selector).els
              /\ r.scrolls = r.queries - 1
              /\ input.made => input.at < r.ret.at
         /\ (r.pc = "idle" /\ r.ret.kind = "notfound") =>
              /\ r.queries = r.maxScrolls /\ r.scrolls = r.maxScrolls
              /\ r.ret.error.name = "Error"
              /\ Includes(ScrollMessage(r.ret.error), JSONStringify(r.selector))
              /\ r.maxScrolls > 0 => ~FirstVisible(r.seen)

\* C30: scrollToElement always terminates; it returns the element at the
\* first query whose first match is visible and scrolls no more after it, makes
\* at most maxScrolls scroll gestures, and after maxScrolls queries without a
\* visible match throws the not-found error that names the selector.
C30_ScrollTerminates ==
  /\ []ScrollState
  /\ \A c \in Solo : (client[c].op = "scroll") ~> (client[c].pc = "idle")

\* scrollToElement has returned the element after one scroll at least.
C30_Witness ==
  \E c \in Solo :
    /\ client[c].op = "scroll" /\ client[c].pc = "idle"
    /\ client[c].ret.kind = "element" /\ client[c].scrolls >= 1

====
